---- MODULE Spec2Model ----
(***************************************************************************)
(* RoleOut: the batch export orchestrator of export-manager.js and the PNG *)
(* metadata codec of png-metadata.js.                                      *)
(*                                                                         *)
(* Part 1 models one invocation of exportCharactersAsZip, exportChatsAsZip *)
(* or exportPersonasAsZip.  JavaScript runs every handler to its next      *)
(* await without interruption, so an action is the code between two        *)
(* suspension points.  A job's promise settles while the orchestrator is   *)
(* suspended in `await Promise.race(inProgress)`; the job's own .then      *)
(* callback removes the promise from inProgress, and the orchestrator      *)
(* continues in a later microtask.  Which jobs settle before it continues  *)
(* is decided by the environment (jobs that fail before their first await  *)
(* are settled when they are started), so JobSettle may happen any number  *)
(* of times before Resume.                                                 *)
(***************************************************************************)
EXTENDS Integers, Sequences, FiniteSets, TLC

\* ---------------------------------------------------------------- bounds
MaxJobs == 6
MaxChats == 2
MaxPersonas == 3
MaxMissing == 1
MaxFailing == 2
MaxAvatars == 2
MaxStrLen == 1
MaxExisting == 1
MaxTrailing == 1
MaxNamed == 2
MaxText == 2

\* ------------------------------------------------------ program constants
MAX_CONCURRENT_EXPORTS == 5

VARIABLES
    kind,               \* which entry point runs: "characters", "chats", "personas"
    ids,                \* the submitted array (characterIds / chatExports / personaIds)
    failing,            \* positions whose job runner ends in its catch block
    stuck,              \* position whose fetch never resolves, 0 = none
    pc,                 \* position of the entry point
    queue,              \* const queue = [...]
    inProgress,         \* const inProgress = new Set()
    raceWinner,         \* job that resolved the pending Promise.race, 0 = pending
    results,            \* const results = []
    started,            \* how often each position was handed to a job runner
    outcome,            \* result each job runner resolved to
    idx,                \* loop position of exportPersonasAsZip
    exported, failed, bundleExported, errors,
    includedCharacters, \* const includedCharacters = new Set()
    charAdds,           \* zip.file(charFilename, ...) calls per avatar
    zipFiles,           \* zip.file(...) calls for primary members, in order
    downloaded,         \* downloadBlob(zipBlob, ...) was called
    report,             \* value the entry point resolved to
    argPng,            \* the bytes handed to the codec
    argKeyword,            \* argKeyword of embedMetadataInPNG
    argJson,           \* value of embedMetadataInPNG
    ppc,                \* what the caller of the codec has done so far
    embedded,           \* outcome of embedMetadataInPNG(argPng, argKeyword, argJson)
    extractKeyword,     \* argKeyword of the last extractMetadataFromPNG
    extracted,          \* outcome of the last extractMetadataFromPNG
    argType,            \* type handed to createChunk, type of the chunk read
    argData,            \* data handed to createChunk, data of the chunk read
    cpc,                \* what the caller of the chunk functions has done so far
    readKeyword,        \* keyword of the last readTextChunk
    readResult,         \* outcome of the last readTextChunk
    createdChunk,       \* outcome of createChunk(argType, argData)
    jobKind,            \* the job runner that runs: "character" or "chat"
    jobItem,            \* the character or chat handed to the job runner
    jobPc,              \* the await the job runner is suspended in
    jobFetches,         \* what the awaited fetches and bodies settled to so far
    jobResult           \* value the job runner resolved to

orchVars == <<kind, ids, failing, stuck, pc, queue, inProgress, raceWinner, results,
              started, outcome, idx, exported, failed, bundleExported, errors,
              includedCharacters, charAdds, zipFiles, downloaded, report>>

chunkVars == <<argType, argData, cpc, readKeyword, readResult, createdChunk>>

pngVars == <<argPng, argKeyword, argJson, ppc, embedded, extractKeyword, extracted,
             chunkVars>>

jobVars == <<jobKind, jobItem, jobPc, jobFetches, jobResult>>

vars == <<orchVars, pngVars, jobVars>>

Min(a, b) == IF a < b THEN a ELSE b

\* ------------------------------------------------------------- the input
\* One element of the submitted array.  present: the id is found by
\* getCharacterList().find / getPersonaList().find (always TRUE for chats,
\* whose caller passes the chat objects).  avatar 0 is a missing avatar; the
\* avatar file 2 of a persona is no PNG.
Item(p, a, ic, eb) ==
    [present |-> p, avatar |-> a, includeCharacter |-> ic, exportBundle |-> eb]

CharacterItems == {Item(TRUE, 1, FALSE, FALSE), Item(FALSE, 1, FALSE, FALSE)}

ChatItems ==
    {Item(TRUE, a, TRUE, FALSE) : a \in 1..MaxAvatars}
      \cup {Item(TRUE, 1, FALSE, FALSE), Item(TRUE, 1, TRUE, TRUE)}

PersonaItems ==
    {Item(TRUE, 1, FALSE, FALSE), Item(TRUE, 2, FALSE, FALSE),
     Item(TRUE, 0, FALSE, FALSE), Item(FALSE, 1, FALSE, FALSE)}

SeqsUpTo(S, n) == UNION {[1..m -> S] : m \in 0..n}

\* characterIds: found ids first, then at most MaxMissing ids that are not in
\* the character list (the filter of exportCharactersAsZip drops them
\* wherever they stand).
CharacterInputs ==
    {s \in SeqsUpTo(CharacterItems, MaxJobs) :
        /\ Cardinality({i \in DOMAIN s : ~s[i].present}) <= MaxMissing
        /\ \A i, j \in DOMAIN s : (i < j /\ s[j].present) => s[i].present}

ChatInputs == SeqsUpTo(ChatItems, MaxChats)

PersonaInputs == SeqsUpTo(PersonaItems, MaxPersonas)

\* The positions whose job fails.  MaxJobs bounds the size of a run, the
\* submitted items plus the failing ones, so that the batches larger than
\* MAX_CONCURRENT_EXPORTS stay few.
FailingSets(s) ==
    {F \in SUBSET (1..Min(Len(s), MaxFailing)) : Len(s) + Cardinality(F) <= MaxJobs}

NoReport == [kind |-> "none", success |-> FALSE, exported |-> 0, failed |-> 0,
             hasErrors |-> FALSE, errors |-> <<>>]

\* `return;` of exportChatsAsZip: the promise resolves to undefined
UndefinedReport == [NoReport EXCEPT !.kind = "undefined"]

\* return { success: true, exported, failed, errors: failed > 0 ? errors : undefined }
SuccessReport(e, f, errs) ==
    [kind |-> "report", success |-> TRUE, exported |-> e, failed |-> f,
     hasErrors |-> f > 0, errors |-> IF f > 0 THEN errs ELSE <<>>]

\* catch: return { success: false, exported: 0, failed: <array>.length, errors: [error.message] }
\* A reason is the position of the job it names; 0 is the message of the
\* error thrown by the entry point itself.
FailureReport(n) ==
    [kind |-> "report", success |-> FALSE, exported |-> 0, failed |-> n,
     hasErrors |-> TRUE, errors |-> <<0>>]

NoOutcome == [settled |-> FALSE, success |-> FALSE, isBundleExport |-> FALSE,
              hasChar |-> FALSE, avatarUrl |-> 0, job |-> 0]

\* ------------------------------------------------- entry points: set-up
Positions(s) == {i \in DOMAIN s : s[i].present}

\* the positions of s that satisfy present, in ascending order
\* (characterIds.map(find).filter(Boolean))
RECURSIVE FilterPresent(_, _)
FilterPresent(s, i) ==
    IF i > Len(s) THEN <<>>
    ELSE IF s[i].present THEN <<i>> \o FilterPresent(s, i + 1)
    ELSE FilterPresent(s, i + 1)

Finish(r) ==
    /\ report' = r
    /\ pc' = "done"

\* exportCharactersAsZip up to the call of batchExportCharacters
BeginCharacters ==
    /\ pc = "start"
    /\ kind = "characters"
    /\ LET charactersToExport == FilterPresent(ids, 1) IN
       \E loaded \in BOOLEAN :
          IF Len(charactersToExport) = 0 \/ ~loaded
          THEN /\ Finish(FailureReport(Len(ids)))
               /\ UNCHANGED queue
          ELSE /\ queue' = charactersToExport
               /\ pc' = "loop"
               /\ UNCHANGED report
    /\ UNCHANGED pngVars
    /\ UNCHANGED jobVars
    /\ UNCHANGED <<kind, ids, failing, stuck, inProgress, raceWinner, results, started,
                   outcome, idx, exported, failed, bundleExported, errors,
                   includedCharacters, charAdds, zipFiles, downloaded>>

\* exportChatsAsZip up to its pool loop
BeginChats ==
    /\ pc = "start"
    /\ kind = "chats"
    /\ \E loaded \in BOOLEAN :
          IF Len(ids) = 0 \/ ~loaded
          THEN /\ Finish(FailureReport(Len(ids)))
               /\ UNCHANGED queue
          ELSE /\ queue' = [i \in 1..Len(ids) |-> i]
               /\ pc' = "loop"
               /\ UNCHANGED report
    /\ UNCHANGED pngVars
    /\ UNCHANGED jobVars
    /\ UNCHANGED <<kind, ids, failing, stuck, inProgress, raceWinner, results, started,
                   outcome, idx, exported, failed, bundleExported, errors,
                   includedCharacters, charAdds, zipFiles, downloaded>>

\* exportPersonasAsZip up to its for loop
BeginPersonas ==
    /\ pc = "start"
    /\ kind = "personas"
    /\ \E loaded \in BOOLEAN :
          IF Len(ids) = 0 \/ ~loaded
          THEN Finish(FailureReport(Len(ids)))
          ELSE /\ pc' = "personas"
               /\ UNCHANGED report
    /\ UNCHANGED pngVars
    /\ UNCHANGED jobVars
    /\ UNCHANGED <<kind, ids, failing, stuck, queue, inProgress, raceWinner, results,
                   started, outcome, idx, exported, failed, bundleExported,
                   errors, includedCharacters, charAdds, zipFiles, downloaded>>

\* ------------------------------------------------------ the pool loop
\* inProgress.size < MAX_CONCURRENT_EXPORTS
SlotFreeOffByOne(size) == size <= MAX_CONCURRENT_EXPORTS

\* inProgress.size < MAX_CONCURRENT_EXPORTS - 1: one slot is never used
SlotFreeReserve(size) == size < MAX_CONCURRENT_EXPORTS - 1

SlotFree(size) == size < MAX_CONCURRENT_EXPORTS

\* the fill loop without inProgress.add(promise)
RECURSIVE FillForget(_, _)
FillForget(q, ip) ==
    IF SlotFree(Cardinality(ip)) /\ Len(q) > 0
    THEN FillForget(Tail(q), ip)
    ELSE [queue |-> q, inProgress |-> ip]

\* the fill loop with queue.pop() in place of queue.shift()
RECURSIVE FillLifo(_, _)
FillLifo(q, ip) ==
    IF SlotFree(Cardinality(ip)) /\ Len(q) > 0
    THEN FillLifo(SubSeq(q, 1, Len(q) - 1), ip \cup {q[Len(q)]})
    ELSE [queue |-> q, inProgress |-> ip]

\* while (inProgress.size < MAX_CONCURRENT_EXPORTS && queue.length > 0)
\*     { queue.shift(); ...; inProgress.add(promise) }
RECURSIVE Fill(_, _)
Fill(q, ip) ==
    IF SlotFree(Cardinality(ip)) /\ Len(q) > 0
    THEN Fill(Tail(q), ip \cup {Head(q)})
    ELSE [queue |-> q, inProgress |-> ip]

\* while (queue.length > 0): the loop without its inProgress.size > 0 test
LoopConditionQueueOnly(q, ip) == Len(q) > 0

LoopConditionAlways(q, ip) == TRUE

\* while (queue.length > 0 || inProgress.size > 0)
LoopCondition(q, ip) == Len(q) > 0 \/ ip # {}

\* One pass of the outer while loop up to `await Promise.race(inProgress)`,
\* or the exit of the loop.
PoolLoop ==
    /\ pc = "loop"
    /\ IF LoopCondition(queue, inProgress)
       THEN LET f == Fill(queue, inProgress) IN
            /\ queue' = f.queue
            /\ inProgress' = f.inProgress
            /\ started' = [i \in DOMAIN started |->
                             IF i \in f.inProgress \ inProgress
                             THEN started[i] + 1 ELSE started[i]]
            /\ raceWinner' = 0
            /\ pc' = IF f.inProgress # {} THEN "wait" ELSE "loop"
       ELSE /\ pc' = "aggregate"
            /\ UNCHANGED <<queue, inProgress, started, raceWinner>>
    /\ UNCHANGED pngVars
    /\ UNCHANGED jobVars
    /\ UNCHANGED <<kind, ids, failing, stuck, results, outcome, idx, exported, failed,
                   bundleExported, errors, includedCharacters, charAdds,
                   zipFiles, downloaded, report>>

\* What the job runner of position j resolves to.  charOk: the response of
\* the character fetch of exportSingleChatToBlob was ok.
JobResult(j, charOk) ==
    IF kind = "chats" /\ ids[j].exportBundle
    THEN \* exportSingleChat(...).then(result => ({...result, isBundleExport: true}))
         [settled |-> TRUE, success |-> j \notin failing, isBundleExport |-> TRUE,
          hasChar |-> FALSE, avatarUrl |-> 0, job |-> j]
    ELSE IF kind = "chats"
    THEN \* exportSingleChatToBlob
         IF j \in failing
         THEN [settled |-> TRUE, success |-> FALSE, isBundleExport |-> FALSE,
               hasChar |-> FALSE, avatarUrl |-> 0, job |-> j]
         ELSE [settled |-> TRUE, success |-> TRUE, isBundleExport |-> FALSE,
               hasChar |-> ids[j].includeCharacter /\ ids[j].avatar # 0 /\ charOk,
               avatarUrl |-> ids[j].avatar, job |-> j]
    ELSE \* exportSingleCharacterToBlob(...).then(result => ({...result, character}))
         [settled |-> TRUE, success |-> j \notin failing, isBundleExport |-> FALSE,
          hasChar |-> FALSE, avatarUrl |-> 0, job |-> j]

\* the .then callback without inProgress.delete(promise)
JobSettleKeep(j) ==
    /\ pc = "wait"
    /\ j \in inProgress
    /\ j # stuck
    /\ \E charOk \in BOOLEAN : outcome' = [outcome EXCEPT ![j] = JobResult(j, charOk)]
    /\ raceWinner' = IF raceWinner = 0 THEN j ELSE raceWinner
    /\ UNCHANGED pngVars
    /\ UNCHANGED jobVars
    /\ UNCHANGED <<kind, ids, failing, stuck, pc, queue, inProgress, results, started, idx,
                   exported, failed, bundleExported, errors, includedCharacters,
                   charAdds, zipFiles, downloaded, report>>

\* a runner whose stuck fetch is turned into a failure by a timeout
JobSettleTimeout(j) ==
    /\ pc = "wait"
    /\ j \in inProgress
    /\ \E charOk \in BOOLEAN : outcome' = [outcome EXCEPT ![j] = JobResult(j, charOk)]
    /\ inProgress' = inProgress \ {j}
    /\ raceWinner' = IF raceWinner = 0 THEN j ELSE raceWinner
    /\ UNCHANGED pngVars
    /\ UNCHANGED jobVars
    /\ UNCHANGED <<kind, ids, failing, stuck, pc, queue, results, started, idx,
                   exported, failed, bundleExported, errors, includedCharacters,
                   charAdds, zipFiles, downloaded, report>>

\* The job runner of position j settles and its .then callback runs:
\* inProgress.delete(promise).  The first promise of the race to fulfil
\* resolves the race.
JobSettle(j) ==
    /\ pc = "wait"
    /\ j \in inProgress
    /\ j # stuck
    /\ \E charOk \in BOOLEAN : outcome' = [outcome EXCEPT ![j] = JobResult(j, charOk)]
    /\ inProgress' = inProgress \ {j}
    /\ raceWinner' = IF raceWinner = 0 THEN j ELSE raceWinner
    /\ UNCHANGED pngVars
    /\ UNCHANGED jobVars
    /\ UNCHANGED <<kind, ids, failing, stuck, pc, queue, results, started, idx,
                   exported, failed, bundleExported, errors, includedCharacters,
                   charAdds, zipFiles, downloaded, report>>

\* the continuation with results.unshift(result) in place of results.push(result)
ResumeUnshift ==
    /\ pc = "wait"
    /\ raceWinner # 0
    /\ results' = <<outcome[raceWinner]>> \o results
    /\ raceWinner' = 0
    /\ pc' = "loop"
    /\ UNCHANGED pngVars
    /\ UNCHANGED jobVars
    /\ UNCHANGED <<kind, ids, failing, stuck, queue, inProgress, started, outcome, idx,
                   exported, failed, bundleExported, errors, includedCharacters,
                   charAdds, zipFiles, downloaded, report>>

\* const result = await Promise.race(inProgress); results.push(result);
Resume ==
    /\ pc = "wait"
    /\ raceWinner # 0
    /\ results' = Append(results, outcome[raceWinner])
    /\ raceWinner' = 0
    /\ pc' = "loop"
    /\ UNCHANGED pngVars
    /\ UNCHANGED jobVars
    /\ UNCHANGED <<kind, ids, failing, stuck, queue, inProgress, started, outcome, idx,
                   exported, failed, bundleExported, errors, includedCharacters,
                   charAdds, zipFiles, downloaded, report>>

\* ------------------------------------------------------- aggregation
NoTally == [exported |-> 0, failed |-> 0, bundleExported |-> 0, errors |-> <<>>,
            includedCharacters |-> {}, charAdds |-> [a \in 0..MaxAvatars |-> 0],
            zipFiles |-> <<>>]

\* body of `for (const result of results)` in exportCharactersAsZip
TallyCharacter(t, r) ==
    IF r.success
    THEN [t EXCEPT !.zipFiles = Append(@, r.job), !.exported = @ + 1]
    ELSE [t EXCEPT !.failed = @ + 1, !.errors = Append(@, r.job)]

\* if (!includedCharacters.has(result.avatarUrl))
NotYetIncludedAlways(t, r) == TRUE

NotYetIncluded(t, r) == r.avatarUrl \notin t.includedCharacters

\* body of `for (const result of results)` in exportChatsAsZip
TallyChat(t, r) ==
    IF r.isBundleExport
    THEN IF r.success
         THEN [t EXCEPT !.bundleExported = @ + 1]
         ELSE [t EXCEPT !.failed = @ + 1, !.errors = Append(@, r.job)]
    ELSE IF r.success
    THEN LET u == [t EXCEPT !.zipFiles = Append(@, r.job), !.exported = @ + 1] IN
         IF r.hasChar /\ r.avatarUrl # 0 /\ NotYetIncluded(u, r)
         THEN [u EXCEPT !.charAdds[r.avatarUrl] = @ + 1,
                        !.includedCharacters = @ \cup {r.avatarUrl}]
         ELSE u
    ELSE [t EXCEPT !.failed = @ + 1, !.errors = Append(@, r.job)]

\* the tally after the first n results
RECURSIVE Tally(_, _)
Tally(rs, n) ==
    IF n = 0 THEN NoTally
    ELSE IF kind = "chats" THEN TallyChat(Tally(rs, n - 1), rs[n])
    ELSE TallyCharacter(Tally(rs, n - 1), rs[n])

SetTally(t) ==
    /\ exported' = t.exported
    /\ failed' = t.failed
    /\ bundleExported' = t.bundleExported
    /\ errors' = t.errors
    /\ includedCharacters' = t.includedCharacters
    /\ charAdds' = t.charAdds
    /\ zipFiles' = t.zipFiles

\* exportCharactersAsZip after batchExportCharacters returned
AggregateCharacters ==
    /\ pc = "aggregate"
    /\ kind = "characters"
    /\ LET t == Tally(results, Len(results)) IN
       /\ SetTally(t)
       /\ IF t.exported = 0
          THEN /\ Finish(FailureReport(Len(ids)))
               /\ UNCHANGED downloaded
          ELSE /\ Finish(SuccessReport(t.exported, t.failed, t.errors))
               /\ downloaded' = TRUE
    /\ UNCHANGED pngVars
    /\ UNCHANGED jobVars
    /\ UNCHANGED <<kind, ids, failing, stuck, queue, inProgress, raceWinner, results,
                   started, outcome, idx>>

\* exportChatsAsZip after its pool loop
AggregateChats ==
    /\ pc = "aggregate"
    /\ kind = "chats"
    /\ LET t == Tally(results, Len(results)) IN
       /\ SetTally(t)
       /\ IF t.exported = 0 /\ t.bundleExported = 0
          THEN /\ Finish(FailureReport(Len(ids)))
               /\ UNCHANGED downloaded
          ELSE IF t.exported = 0 /\ t.bundleExported > 0
          THEN /\ Finish(UndefinedReport)
               /\ UNCHANGED downloaded
          ELSE /\ Finish(SuccessReport(t.exported, t.failed, t.errors))
               /\ downloaded' = TRUE
    /\ UNCHANGED pngVars
    /\ UNCHANGED jobVars
    /\ UNCHANGED <<kind, ids, failing, stuck, queue, inProgress, raceWinner, results,
                   started, outcome, idx>>

\* ======================================================= the job runners
\* Strings are sequences of code points.
\* Date.now() in decimal, one reading of the clock
DateNow == <<49, 55>>

\* the part of str after the last occurrence of c (str.split(c).pop())
RECURSIVE AfterLast(_, _)
AfterLast(str, c) ==
    IF \A i \in 1..Len(str) : str[i] # c THEN str
    ELSE AfterLast(Tail(str), c)

\* filename.replace(/\.[^.]+$/, ''): a last dot that is followed by at least
\* one character is cut off with what follows it
RemoveExtension(filename) ==
    LET dots == {i \in 1..Len(filename) : filename[i] = 46}
        last == CHOOSE i \in dots : \A j \in dots : j <= i
    IN IF dots = {} \/ last = Len(filename) THEN filename
       ELSE SubSeq(filename, 1, last - 1)

\* [a-zA-Z0-9_-]
IsSafeChar(c) ==
    \/ c >= 97 /\ c <= 122
    \/ c >= 65 /\ c <= 90
    \/ c >= 48 /\ c <= 57
    \/ c = 95
    \/ c = 45

\* nameWithoutExt.replace(/[^a-zA-Z0-9_-]/g, '_')
Sanitize(str) == [i \in 1..Len(str) |-> IF IsSafeChar(str[i]) THEN str[i] ELSE 95]

getSafeFilename(avatarPath, newExtension) ==
    IF avatarPath = <<>>
    THEN <<99, 104, 97, 114, 97, 99, 116, 101, 114, 95>> \o DateNow \o <<46>> \o newExtension
    ELSE LET filename == AfterLast(AfterLast(avatarPath, 47), 92)
             nameWithoutExt == RemoveExtension(filename)
             safeName == Sanitize(nameWithoutExt)
         IN safeName \o <<46>> \o newExtension

EXT_png == <<112, 110, 103>>
EXT_jsonl == <<106, 115, 111, 110, 108>>

\* names of avatar files and chat files:
\* "a b.png", "a_b.png", "a.b.png", "x/a b", "c.png"
RawNames ==
    {<<97, 32, 98, 46, 112, 110, 103>>, <<97, 95, 98, 46, 112, 110, 103>>,
     <<97, 46, 98, 46, 112, 110, 103>>, <<120, 47, 97, 32, 98>>,
     <<99, 46, 112, 110, 103>>}

\* an element of the submitted array with its file name (character.avatar,
\* chat.file_name, persona.avatar)
Named(it, n) ==
    [present |-> it.present, avatar |-> it.avatar,
     includeCharacter |-> it.includeCharacter, exportBundle |-> it.exportBundle,
     name |-> n]

\* "c1.png", "c2.png", ...: file names that differ from position to position
DefaultName(i) == <<99, 48 + i, 46, 112, 110, 103>>

DefaultNames(s) == [i \in DOMAIN s |-> Named(s[i], DefaultName(i))]

\* short batches of plain items whose file names are any of RawNames
NamedInputs ==
    {[i \in DOMAIN ns |-> Named(Item(TRUE, 1, FALSE, FALSE), ns[i])] :
        ns \in SeqsUpTo(RawNames, MaxNamed)}

\* the name under which zip.file(...) stores the primary file of position j:
\* result.filename, result.chatFilename, persona.avatar
MemberName(j) ==
    CASE kind = "characters" -> getSafeFilename(ids[j].name, EXT_png)
      [] kind = "chats" -> getSafeFilename(ids[j].name, EXT_jsonl)
      [] OTHER -> ids[j].name

\* the primary members of the archive: a later zip.file(name, ...) replaces
\* an earlier one of the same name
ZipMembers == {MemberName(zipFiles[i]) : i \in 1..Len(zipFiles)}

\* What the environment answers to an awaited fetch: a response with
\* response.ok, a response with another status, or a rejection (network error)
FetchOutcomes == {"ok", "status", "network"}

\* chatResponse.json(): a body with result, a body without, or a rejection
JsonOutcomes == {"result", "noresult", "throws"}

\* response.blob(): the blob or a rejection
BlobOutcomes == {"blob", "throws"}

\* rejected: the promise of the runner was rejected, it has no value
NoJobResult ==
    [success |-> FALSE, error |-> "", filename |-> <<>>, hasChar |-> FALSE,
     rejected |-> FALSE]

\* catch (error) { throw error }
JobFailureRethrow(message) == [NoJobResult EXCEPT !.rejected = TRUE]

\* catch (error) { return { success: false, error: error.message } }
JobFailure(message) == [NoJobResult EXCEPT !.error = message]

JobTransition(p, f, r) ==
    /\ jobPc' = p
    /\ jobFetches' = Append(jobFetches, f)
    /\ jobResult' = r
    /\ UNCHANGED <<jobKind, jobItem>>
    /\ UNCHANGED orchVars
    /\ UNCHANGED pngVars

\* await fetch('/api/characters/export', ...) of exportSingleCharacterToBlob,
\* await fetch('/api/chats/export', ...) of exportSingleChatToBlob
JobFetch(response) ==
    /\ jobPc = "fetch"
    /\ IF response = "network"
       THEN JobTransition("done", response, JobFailure("Failed to fetch"))
       ELSE IF response = "status"
       THEN JobTransition("done", response, JobFailure("HTTP"))
       ELSE JobTransition("body", response, jobResult)

\* !chatData.result
ResultMissingNever(body) == FALSE

ResultMissing(body) == body = "noresult"

\* await response.blob() of exportSingleCharacterToBlob,
\* await chatResponse.json() of exportSingleChatToBlob up to the second fetch
JobBody(body) ==
    /\ jobPc = "body"
    /\ IF jobKind = "character"
       THEN /\ body \in BlobOutcomes
            /\ IF body = "throws"
               THEN JobTransition("done", body, JobFailure("body"))
               ELSE JobTransition("done", body,
                        [NoJobResult EXCEPT !.success = TRUE,
                            !.filename = getSafeFilename(jobItem.name, EXT_png)])
       ELSE /\ body \in JsonOutcomes
            /\ IF body = "throws"
               THEN JobTransition("done", body, JobFailure("body"))
               ELSE IF ResultMissing(body)
               THEN JobTransition("done", body, JobFailure("No data returned"))
               ELSE LET chatOnly ==
                            [NoJobResult EXCEPT !.success = TRUE,
                                !.filename = getSafeFilename(jobItem.name, EXT_jsonl)]
                    IN IF ~jobItem.includeCharacter \/ jobItem.avatar = 0
                       THEN JobTransition("done", body, chatOnly)
                       ELSE JobTransition("charFetch", body, chatOnly)

\* await fetch('/api/characters/export', ...) of exportSingleChatToBlob
JobCharFetch(response) ==
    /\ jobPc = "charFetch"
    /\ IF response = "network"
       THEN JobTransition("done", response, JobFailure("Failed to fetch"))
       ELSE IF response = "status"
       THEN \* Character export failed, still return chat
            JobTransition("done", response, jobResult)
       ELSE JobTransition("charBlob", response, jobResult)

\* await charResponse.blob() of exportSingleChatToBlob
JobCharBlob(body) ==
    /\ jobPc = "charBlob"
    /\ IF body = "throws"
       THEN JobTransition("done", body, JobFailure("body"))
       ELSE JobTransition("done", body, [jobResult EXCEPT !.hasChar = TRUE])

\* ===================================================== png-metadata.js
\* Bytes are integers 0..255, byte arrays and strings are sequences (a string
\* is the sequence of its code points), offsets count from 0 as in the
\* source.  A 32-bit word is the pair <<high 16 bits, low 16 bits>>.

PNG_SIGNATURE == <<137, 80, 78, 71, 13, 10, 26, 10>>

\* bytes src[from] .. src[to - 1] with 0-based, clamped bounds (Uint8Array.slice)
Slice(src, from, to) ==
    LET f == IF from > Len(src) THEN Len(src) ELSE from
        t == IF to > Len(src) THEN Len(src) ELSE to
    IN IF t <= f THEN <<>> ELSE SubSeq(src, f + 1, t)

\* bit p of a ^ b, p a power of two
XorBit(a, b, p) == (((a \div p) + (b \div p)) % 2) * p

\* a ^ b for a, b < 2^16
Xor16(a, b) ==
    XorBit(a, b, 1) + XorBit(a, b, 2) + XorBit(a, b, 4) + XorBit(a, b, 8)
      + XorBit(a, b, 16) + XorBit(a, b, 32) + XorBit(a, b, 64) + XorBit(a, b, 128)
      + XorBit(a, b, 256) + XorBit(a, b, 512) + XorBit(a, b, 1024)
      + XorBit(a, b, 2048) + XorBit(a, b, 4096) + XorBit(a, b, 8192)
      + XorBit(a, b, 16384) + XorBit(a, b, 32768)

Xor32(x, y) == <<Xor16(x[1], y[1]), Xor16(x[2], y[2])>>

\* x >>> n for n < 16
Shr32(x, n) ==
    LET p == 2 ^ n
    IN <<x[1] \div p, (x[2] \div p) + (x[1] % p) * (65536 \div p)>>

\* 0xEDB88320
CRC_POLY == <<60856, 33568>>

\* c = (c & 1) ? (0xEDB88320 ^ (c >>> 1)) : (c >>> 1), k times
RECURSIVE CrcShift(_, _)
CrcShift(c, k) ==
    IF k = 0 THEN c
    ELSE CrcShift(IF c[2] % 2 = 1 THEN Xor32(CRC_POLY, Shr32(c, 1)) ELSE Shr32(c, 1),
                  k - 1)

makeCRCTable == [n \in 0..255 |-> CrcShift(<<0, n>>, 8)]

\* for (let i = 0; i < data.length; i++)
\*     crc = table[(crc ^ data[i]) & 0xFF] ^ (crc >>> 8)
\* from the loop state s = [crc, i] on
RECURSIVE CrcLoop(_, _)
CrcLoop(data, s) ==
    IF s.i >= Len(data) THEN s.crc
    ELSE CrcLoop(data,
                 [crc |-> Xor32(makeCRCTable[Xor16(s.crc[2] % 256, data[s.i + 1])],
                                Shr32(s.crc, 8)),
                  i |-> s.i + 1])

\* crc32 without `^ 0xFFFFFFFF` in its return statement
crc32NoFinalXor(data) == CrcLoop(data, [crc |-> <<65535, 65535>>, i |-> 0])

crc32(data) ==
    Xor32(CrcLoop(data, [crc |-> <<65535, 65535>>, i |-> 0]), <<65535, 65535>>)

\* DataView.setUint32(_, word, false)
WordBytes(w) == <<w[1] \div 256, w[1] % 256, w[2] \div 256, w[2] % 256>>

WordOf(n) == <<n \div 65536, n % 65536>>

\* DataView.getUint32(0, false) of four bytes
getUint32(b) == ((b[1] * 256 + b[2]) * 256 + b[3]) * 256 + b[4]

TYPE_tEXt == <<116, 69, 88, 116>>
TYPE_IEND == <<73, 69, 78, 68>>
TYPE_IHDR == <<73, 72, 68, 82>>
TYPE_IDAT == <<73, 68, 65, 84>>

createChunk(type, data) ==
    WordBytes(WordOf(Len(data))) \o type \o data \o WordBytes(crc32(type \o data))

NoChunks == [error |-> "none", chunks |-> <<>>]

\* the while loop with chunks.unshift(...) in place of chunks.push(...)
RECURSIVE ParseFromUnshift(_, _, _)
ParseFromUnshift(pngData, offset, chunks) ==
    IF offset >= Len(pngData) THEN [error |-> "none", chunks |-> chunks]
    ELSE IF Len(pngData) - offset < 4
    THEN [error |-> "RangeError", chunks |-> <<>>]
    ELSE LET length == getUint32(Slice(pngData, offset, offset + 4))
             type == Slice(pngData, offset + 4, offset + 8)
             data == Slice(pngData, offset + 8, offset + 8 + length)
             more == <<[type |-> type, data |-> data, offset |-> offset]>> \o chunks
         IN IF type = TYPE_IEND
            THEN [error |-> "none", chunks |-> more]
            ELSE ParseFromUnshift(pngData, offset + 4 + 4 + length + 4, more)

\* the while loop without `if (type === 'IEND') break`
RECURSIVE ParseFromNoBreak(_, _, _)
ParseFromNoBreak(pngData, offset, chunks) ==
    IF offset >= Len(pngData) THEN [error |-> "none", chunks |-> chunks]
    ELSE IF Len(pngData) - offset < 4
    THEN [error |-> "RangeError", chunks |-> <<>>]
    ELSE LET length == getUint32(Slice(pngData, offset, offset + 4))
             type == Slice(pngData, offset + 4, offset + 8)
             data == Slice(pngData, offset + 8, offset + 8 + length)
             more == Append(chunks, [type |-> type, data |-> data, offset |-> offset])
         IN ParseFromNoBreak(pngData, offset + 4 + 4 + length + 4, more)

\* the while loop of parseChunks from `offset` on
RECURSIVE ParseFrom(_, _, _)
ParseFrom(pngData, offset, chunks) ==
    IF offset >= Len(pngData) THEN [error |-> "none", chunks |-> chunks]
    ELSE IF Len(pngData) - offset < 4
    THEN \* getUint32 reads past the end of the buffer
         [error |-> "RangeError", chunks |-> <<>>]
    ELSE LET length == getUint32(Slice(pngData, offset, offset + 4))
             type == Slice(pngData, offset + 4, offset + 8)
             data == Slice(pngData, offset + 8, offset + 8 + length)
             more == Append(chunks, [type |-> type, data |-> data, offset |-> offset])
         IN IF type = TYPE_IEND
            THEN [error |-> "none", chunks |-> more]
            ELSE ParseFrom(pngData, offset + 4 + 4 + length + 4, more)

parseChunks(pngData) ==
    IF \E i \in 1..8 : i > Len(pngData) \/ pngData[i] # PNG_SIGNATURE[i]
    THEN [error |-> "Invalid PNG signature", chunks |-> <<>>]
    ELSE ParseFrom(pngData, 8, <<>>)

\* the last chunk is taken for IEND
FindIENDLast(chunks, i) == Len(chunks)

\* chunks.findIndex(c => c.type === 'IEND'), 1-based, 0 when there is none
RECURSIVE FindIEND(_, _)
FindIEND(chunks, i) ==
    IF i > Len(chunks) THEN 0
    ELSE IF chunks[i].type = TYPE_IEND THEN i
    ELSE FindIEND(chunks, i + 1)

\* the offset at which the new chunk is spliced in
SpliceOffsetAfter(iendChunk) == iendChunk.offset + 12

SpliceOffset(iendChunk) == iendChunk.offset

insertChunkBeforeIEND(originalPng, newChunk) ==
    LET parsed == parseChunks(originalPng)
        iendIndex == FindIEND(parsed.chunks, 1)
    IN IF parsed.error # "none" THEN [error |-> parsed.error, bytes |-> <<>>]
       ELSE IF iendIndex = 0 THEN [error |-> "PNG missing IEND chunk", bytes |-> <<>>]
       ELSE LET at == SpliceOffset(parsed.chunks[iendIndex])
                beforeIEND == Slice(originalPng, 0, at)
                iendData == Slice(originalPng, at, Len(originalPng))
            IN [error |-> "none", bytes |-> beforeIEND \o newChunk \o iendData]

\* new TextEncoder().encode(string) for code points below 0x800
RECURSIVE Utf8Encode(_)
Utf8Encode(str) ==
    IF str = <<>> THEN <<>>
    ELSE LET c == Head(str)
         IN (IF c < 128 THEN <<c>> ELSE <<192 + (c \div 64), 128 + (c % 64)>>)
              \o Utf8Encode(Tail(str))

\* new TextDecoder().decode(bytes): one- and two-byte sequences; every other
\* byte is malformed here and becomes U+FFFD
RECURSIVE Utf8Decode(_)
Utf8Decode(bytes) ==
    IF bytes = <<>> THEN <<>>
    ELSE LET b == Head(bytes)
         IN IF b < 128 THEN <<b>> \o Utf8Decode(Tail(bytes))
            ELSE IF /\ b >= 194 /\ b <= 223 /\ Len(bytes) >= 2
                    /\ bytes[2] >= 128 /\ bytes[2] <= 191
            THEN <<(b - 192) * 64 + (bytes[2] - 128)>> \o Utf8Decode(Tail(Tail(bytes)))
            ELSE <<65533>> \o Utf8Decode(Tail(bytes))

\* the text chunk without the null separator
createTextChunkNoSeparator(keyword, jsonString) ==
    createChunk(TYPE_tEXt, Utf8Encode(keyword) \o Utf8Encode(jsonString))

\* the text chunk with the keyword 'chara' whatever keyword is passed
createTextChunkFixedKeyword(keyword, jsonString) ==
    createChunk(TYPE_tEXt, <<99, 104, 97, 114, 97>> \o <<0>> \o Utf8Encode(jsonString))

createTextChunk(keyword, jsonString) ==
    createChunk(TYPE_tEXt, Utf8Encode(keyword) \o <<0>> \o Utf8Encode(jsonString))

\* ----------------------------------------------------------- base64
B64Char(i) ==
    IF i < 26 THEN 65 + i
    ELSE IF i < 52 THEN 97 + (i - 26)
    ELSE IF i < 62 THEN 48 + (i - 52)
    ELSE IF i = 62 THEN 43 ELSE 47

\* value of a base64 character, -1 for any other character
B64Value(c) ==
    IF c >= 65 /\ c <= 90 THEN c - 65
    ELSE IF c >= 97 /\ c <= 122 THEN c - 97 + 26
    ELSE IF c >= 48 /\ c <= 57 THEN c - 48 + 52
    ELSE IF c = 43 THEN 62
    ELSE IF c = 47 THEN 63 ELSE -1

\* btoa(String.fromCharCode(...bytes))
RECURSIVE btoa(_)
btoa(bytes) ==
    IF Len(bytes) = 0 THEN <<>>
    ELSE IF Len(bytes) = 1
    THEN <<B64Char(bytes[1] \div 4), B64Char((bytes[1] % 4) * 16), 61, 61>>
    ELSE IF Len(bytes) = 2
    THEN <<B64Char(bytes[1] \div 4),
           B64Char((bytes[1] % 4) * 16 + bytes[2] \div 16),
           B64Char((bytes[2] % 16) * 4), 61>>
    ELSE <<B64Char(bytes[1] \div 4),
           B64Char((bytes[1] % 4) * 16 + bytes[2] \div 16),
           B64Char((bytes[2] % 16) * 4 + bytes[3] \div 64),
           B64Char(bytes[3] % 64)>> \o btoa(SubSeq(bytes, 4, Len(bytes)))

IsAsciiWhitespace(c) == c \in {9, 10, 12, 13, 32}

RECURSIVE StripWhitespace(_)
StripWhitespace(str) ==
    IF str = <<>> THEN <<>>
    ELSE IF IsAsciiWhitespace(Head(str)) THEN StripWhitespace(Tail(str))
    ELSE <<Head(str)>> \o StripWhitespace(Tail(str))

\* if the length is a multiple of 4, remove one or two trailing '='
StripPadding(str) ==
    LET n == Len(str)
    IN IF n % 4 # 0 \/ n = 0 THEN str
       ELSE IF str[n] = 61 /\ str[n - 1] = 61 THEN SubSeq(str, 1, n - 2)
       ELSE IF str[n] = 61 THEN SubSeq(str, 1, n - 1)
       ELSE str

\* the bytes of a string of base64 characters without padding
RECURSIVE B64Bytes(_)
B64Bytes(str) ==
    IF Len(str) <= 1 THEN <<>>
    ELSE LET a == B64Value(str[1])
             b == B64Value(str[2])
         IN IF Len(str) = 2 THEN <<a * 4 + b \div 16>>
            ELSE LET c == B64Value(str[3])
                 IN IF Len(str) = 3
                    THEN <<a * 4 + b \div 16, (b % 16) * 16 + c \div 4>>
                    ELSE <<a * 4 + b \div 16, (b % 16) * 16 + c \div 4,
                           (c % 4) * 64 + B64Value(str[4])>>
                           \o B64Bytes(SubSeq(str, 5, Len(str)))

\* atob(text): ok = FALSE when it throws InvalidCharacterError
atob(text) ==
    LET data == StripPadding(StripWhitespace(text))
    IN IF Len(data) % 4 = 1 \/ \E i \in 1..Len(data) : B64Value(data[i]) < 0
       THEN [ok |-> FALSE, bytes |-> <<>>]
       ELSE [ok |-> TRUE, bytes |-> B64Bytes(data)]

\* ------------------------------------------------------------- JSON
\* A JSON value: null, a boolean, an integer, a string, or an object with one
\* member whose value is not an object (vt is the type of the member's value).
JNull == [t |-> "null", vt |-> "", b |-> FALSE, n |-> 0, s |-> <<>>, k |-> <<>>]
JBool(b) == [JNull EXCEPT !.t = "bool", !.b = b]
JNum(n) == [JNull EXCEPT !.t = "num", !.n = n]
JStr(s) == [JNull EXCEPT !.t = "str", !.s = s]
JObj(k, v) == [v EXCEPT !.t = "obj", !.vt = v.t, !.k = k]

\* the member value of an object
JMember(v) == [v EXCEPT !.t = v.vt, !.vt = "", !.k = <<>>]

RECURSIVE Digits(_)
Digits(n) == IF n < 10 THEN <<48 + n>> ELSE Digits(n \div 10) \o <<48 + (n % 10)>>

\* QuoteJSONString without the quotes, for strings without control characters
RECURSIVE EscapeJSON(_)
EscapeJSON(str) ==
    IF str = <<>> THEN <<>>
    ELSE (IF Head(str) \in {34, 92} THEN <<92, Head(str)>> ELSE <<Head(str)>>)
           \o EscapeJSON(Tail(str))

Quote(str) == <<34>> \o EscapeJSON(str) \o <<34>>

StringifyFlat(v) ==
    CASE v.t = "null" -> <<110, 117, 108, 108>>
      [] v.t = "bool" -> IF v.b THEN <<116, 114, 117, 101>>
                                ELSE <<102, 97, 108, 115, 101>>
      [] v.t = "num" -> IF v.n < 0 THEN <<45>> \o Digits(0 - v.n) ELSE Digits(v.n)
      [] OTHER -> Quote(v.s)

\* JSON.stringify(jsonData)
JSONstringify(v) ==
    IF v.t = "obj"
    THEN <<123>> \o Quote(v.k) \o <<58>> \o StringifyFlat(JMember(v)) \o <<125>>
    ELSE StringifyFlat(v)

NoParse == [ok |-> FALSE, value |-> JNull]

Parsed(v) == [ok |-> TRUE, value |-> v]

\* index of the quote that closes the string whose opening quote is just
\* before position i, 0 when the string is not closed or holds a character
\* or an escape that JSON does not allow (only \" and \\ occur here)
RECURSIVE CloseQuote(_, _)
CloseQuote(text, i) ==
    IF i > Len(text) THEN 0
    ELSE IF text[i] = 34 THEN i
    ELSE IF text[i] < 32 THEN 0
    ELSE IF text[i] = 92
    THEN IF i + 1 <= Len(text) /\ text[i + 1] \in {34, 92}
         THEN CloseQuote(text, i + 2) ELSE 0
    ELSE CloseQuote(text, i + 1)

RECURSIVE Unescape(_)
Unescape(str) ==
    IF str = <<>> THEN <<>>
    ELSE IF Head(str) = 92 THEN <<str[2]>> \o Unescape(Tail(Tail(str)))
    ELSE <<Head(str)>> \o Unescape(Tail(str))

RECURSIVE NumberOf(_)
NumberOf(digits) ==
    IF digits = <<>> THEN 0
    ELSE NumberOf(SubSeq(digits, 1, Len(digits) - 1)) * 10 + (digits[Len(digits)] - 48)

\* -?(0|[1-9][0-9]*)
IsInteger(text) ==
    LET digits == IF text # <<>> /\ Head(text) = 45 THEN Tail(text) ELSE text
    IN /\ digits # <<>>
       /\ \A i \in 1..Len(digits) : digits[i] >= 48 /\ digits[i] <= 57
       /\ (Len(digits) > 1 => digits[1] # 48)

ParseFlat(text) ==
    IF text = <<110, 117, 108, 108>> THEN Parsed(JNull)
    ELSE IF text = <<116, 114, 117, 101>> THEN Parsed(JBool(TRUE))
    ELSE IF text = <<102, 97, 108, 115, 101>> THEN Parsed(JBool(FALSE))
    ELSE IF IsInteger(text)
    THEN Parsed(JNum(IF Head(text) = 45 THEN 0 - NumberOf(Tail(text)) ELSE NumberOf(text)))
    ELSE IF Len(text) >= 2 /\ Head(text) = 34 /\ CloseQuote(text, 2) = Len(text)
    THEN Parsed(JStr(Unescape(SubSeq(text, 2, Len(text) - 1))))
    ELSE NoParse

\* JSON.parse(text) for texts without insignificant whitespace
JSONparse(text) ==
    IF Len(text) >= 2 /\ Head(text) = 123 /\ text[Len(text)] = 125
    THEN IF Len(text) >= 3 /\ text[2] = 34
         THEN LET q == CloseQuote(text, 3)
              IN IF q = 0 \/ q + 1 > Len(text) - 1 \/ text[q + 1] # 58 THEN NoParse
                 ELSE LET member == ParseFlat(SubSeq(text, q + 2, Len(text) - 1))
                      IN IF member.ok
                         THEN Parsed(JObj(Unescape(SubSeq(text, 3, q - 1)), member.value))
                         ELSE NoParse
         ELSE NoParse
    ELSE ParseFlat(text)

\* ------------------------------------------------- embed and extract
embedMetadataInPNG(pngData, keyword, jsonData) ==
    LET jsonString == JSONstringify(jsonData)
        utf8Bytes == Utf8Encode(jsonString)
        base64Json == btoa(utf8Bytes)
        textChunk == createTextChunk(keyword, base64Json)
    IN insertChunkBeforeIEND(pngData, textChunk)

\* the index of the last zero byte of data instead of the first
RECURSIVE NullIndexLast(_, _)
NullIndexLast(data, i) ==
    IF i > Len(data) THEN 0
    ELSE LET later == NullIndexLast(data, i + 1)
         IN IF later # 0 THEN later
            ELSE IF data[i] = 0 THEN i
            ELSE 0

\* index of the first zero byte of data, 0 when there is none
RECURSIVE NullIndex(_, _)
NullIndex(data, i) ==
    IF i > Len(data) THEN 0
    ELSE IF data[i] = 0 THEN i
    ELSE NullIndex(data, i + 1)

NoText == [found |-> FALSE, keyword |-> <<>>, text |-> <<>>]

\* readTextChunk with chunkKeyword.startsWith(keyword) for the comparison
readTextChunkPrefix(chunk, keyword) ==
    IF chunk.type # TYPE_tEXt THEN NoText
    ELSE LET nullIndex == NullIndex(chunk.data, 1)
         IN IF nullIndex = 0 THEN NoText
            ELSE LET chunkKeyword == Utf8Decode(SubSeq(chunk.data, 1, nullIndex - 1))
                 IN IF Slice(chunkKeyword, 0, Len(keyword)) # keyword THEN NoText
                    ELSE [found |-> TRUE, keyword |-> chunkKeyword,
                          text |-> Utf8Decode(SubSeq(chunk.data, nullIndex + 1,
                                                     Len(chunk.data)))]

readTextChunk(chunk, keyword) ==
    IF chunk.type # TYPE_tEXt THEN NoText
    ELSE LET nullIndex == NullIndex(chunk.data, 1)
         IN IF nullIndex = 0 THEN NoText
            ELSE LET chunkKeyword == Utf8Decode(SubSeq(chunk.data, 1, nullIndex - 1))
                 IN IF chunkKeyword # keyword THEN NoText
                    ELSE [found |-> TRUE, keyword |-> chunkKeyword,
                          text |-> Utf8Decode(SubSeq(chunk.data, nullIndex + 1,
                                                     Len(chunk.data)))]

Absent(err) == [error |-> err, found |-> FALSE, value |-> JNull]

\* the two nested try blocks of extractMetadataFromPNG for one matching chunk
DecodeText(text) ==
    LET base64Decoded == atob(text)
        jsonText == IF base64Decoded.ok THEN Utf8Decode(base64Decoded.bytes) ELSE text
        parsed == JSONparse(jsonText)
    IN IF parsed.ok THEN [error |-> "none", found |-> TRUE, value |-> parsed.value]
       ELSE Absent("none")

\* the loop without its early return: a later matching chunk that decodes
\* overrides an earlier one
RECURSIVE ExtractFromLast(_, _, _)
ExtractFromLast(chunks, keyword, i) ==
    IF i > Len(chunks) THEN Absent("none")
    ELSE LET later == ExtractFromLast(chunks, keyword, i + 1)
             result == readTextChunk(chunks[i], keyword)
         IN IF later.found THEN later
            ELSE IF result.found THEN DecodeText(result.text)
            ELSE later

\* the loop with `continue` in place of `return null` in the catch block: a
\* matching chunk whose text does not parse is passed over
RECURSIVE ExtractFromSkipBad(_, _, _)
ExtractFromSkipBad(chunks, keyword, i) ==
    IF i > Len(chunks) THEN Absent("none")
    ELSE LET result == readTextChunk(chunks[i], keyword)
         IN IF result.found /\ DecodeText(result.text).found
            THEN DecodeText(result.text)
            ELSE ExtractFromSkipBad(chunks, keyword, i + 1)

\* for (const chunk of chunks) from index i on
RECURSIVE ExtractFrom(_, _, _)
ExtractFrom(chunks, keyword, i) ==
    IF i > Len(chunks) THEN Absent("none")
    ELSE LET result == readTextChunk(chunks[i], keyword)
         IN IF result.found THEN DecodeText(result.text)
            ELSE ExtractFrom(chunks, keyword, i + 1)

extractMetadataFromPNG(pngData, keyword) ==
    LET parsed == parseChunks(pngData)
    IN IF parsed.error # "none" THEN Absent(parsed.error)
       ELSE ExtractFrom(parsed.chunks, keyword, 1)

\* ------------------------------------------------- inputs of the codec
\* 'chara' and 'persona' are the keywords of the callers; 'char' is a proper
\* prefix of one of them
KW_chara == <<99, 104, 97, 114, 97>>
KW_persona == <<112, 101, 114, 115, 111, 110, 97>>
KW_char == <<99, 104, 97, 114>>

Keywords == {KW_chara, KW_persona, KW_char}

\* characters of the string values: a, a double quote, U+00E9
StrChars == {97, 34, 233}

Strings == SeqsUpTo(StrChars, MaxStrLen)

FlatValues ==
    {JNull, JBool(TRUE), JBool(FALSE), JNum(7), JNum(1234), JNum(0 - 1)}
      \cup {JStr(s) : s \in Strings}

JsonValues == FlatValues \cup {JObj(<<97>>, v) : v \in FlatValues}

IHDR == createChunk(TYPE_IHDR, <<0, 0, 0, 1, 0, 0, 0, 1, 8, 2, 0, 0, 0>>)
IDAT == createChunk(TYPE_IDAT, <<120, 1>>)
IEND == createChunk(TYPE_IEND, <<>>)

\* text chunks a file may already carry: metadata written by
\* embedMetadataInPNG, raw JSON text of the legacy format ({"a":7} and
\* true), a text that is no JSON (hi!), and a tEXt chunk without separator
ExistingChunks ==
    {createTextChunk(KW_chara, btoa(Utf8Encode(JSONstringify(JNum(7))))),
     createTextChunk(KW_chara, <<123, 34, 97, 34, 58, 55, 125>>),
     createTextChunk(KW_chara, <<116, 114, 117, 101>>),
     createTextChunk(KW_chara, <<104, 105, 33>>),
     createTextChunk(KW_persona, btoa(Utf8Encode(JSONstringify(JNum(7))))),
     createChunk(TYPE_tEXt, KW_chara)}

RECURSIVE Concat(_)
Concat(ss) == IF ss = <<>> THEN <<>> ELSE Head(ss) \o Concat(Tail(ss))

\* bytes that follow the IEND chunk in the file
Trailing(n) == [i \in 1..n |-> i]

\* signature, IHDR, the text chunks, IDAT, IEND, trailing bytes; and a file
\* in which whole chunks, a second IEND among them, follow the first IEND
WellFormedInputs ==
    {PNG_SIGNATURE \o IHDR \o Concat(ex) \o IDAT \o IEND \o Trailing(n) :
        ex \in SeqsUpTo(ExistingChunks, MaxExisting), n \in 0..MaxTrailing}
      \cup {PNG_SIGNATURE \o IHDR \o IEND \o IDAT \o IEND}

\* a wrong signature, a file shorter than the signature, the signature
\* alone, no IEND chunk, a file cut inside a chunk header, a chunk longer
\* than the rest of the file
MalformedInputs ==
    {<<137, 80, 78, 71, 13, 10, 26, 11>> \o IHDR \o IEND,
     <<137, 80, 78>>,
     PNG_SIGNATURE,
     PNG_SIGNATURE \o IHDR \o IDAT,
     PNG_SIGNATURE \o IHDR \o <<0, 0>>,
     PNG_SIGNATURE \o IHDR \o <<0, 0, 0, 9>> \o TYPE_IDAT \o <<1, 2>>}

PngInputs == WellFormedInputs \cup MalformedInputs

NoBytes == [error |-> "none", bytes |-> <<>>]

\* ------------------------------------------------- calls of the codec
\* const pngWithMetadata = embedMetadataInPNG(pngData, keyword, jsonData)
Embed ==
    /\ ppc = "input"
    /\ embedded' = embedMetadataInPNG(argPng, argKeyword, argJson)
    /\ ppc' = "embedded"
    /\ UNCHANGED <<argPng, argKeyword, argJson, extractKeyword, extracted>>
    /\ UNCHANGED chunkVars
    /\ UNCHANGED orchVars
    /\ UNCHANGED jobVars

\* extractMetadataFromPNG(bytes, k) on the input file or on the output of
\* embedMetadataInPNG
Extract(k) ==
    /\ \/ ppc = "input"
       \/ ppc = "embedded" /\ embedded.error = "none"
    /\ extracted' = extractMetadataFromPNG(
                        IF ppc = "input" THEN argPng ELSE embedded.bytes, k)
    /\ extractKeyword' = k
    /\ ppc' = IF ppc = "input" THEN "probed" ELSE "extracted"
    /\ UNCHANGED <<argPng, argKeyword, argJson, embedded>>
    /\ UNCHANGED chunkVars
    /\ UNCHANGED orchVars
    /\ UNCHANGED jobVars

\* --------------------------------- calls of the functions on one chunk
\* tEXt, IDAT, IEND, and two types that differ from tEXt in one letter:
\* tEXT, zEXt
ChunkTypes ==
    {TYPE_tEXt, TYPE_IDAT, TYPE_IEND, <<116, 69, 88, 84>>, <<122, 69, 88, 116>>}

\* the bytes after the separator: a, a zero byte, the lead byte of a
\* multi-byte sequence that stands alone
ChunkTexts == SeqsUpTo({0, 97, 233}, MaxText)

\* a keyword, 0x00 and a text; a payload without zero byte
ChunkPayloads ==
    {k \o <<0>> \o t : k \in Keywords \cup {<<>>}, t \in ChunkTexts}
      \cup Keywords \cup {<<>>}

\* readTextChunk({ type, data }, k)
ReadText(k) ==
    /\ cpc = "input"
    /\ readResult' = readTextChunk([type |-> argType, data |-> argData, offset |-> 8], k)
    /\ readKeyword' = k
    /\ cpc' = "read"
    /\ UNCHANGED <<argType, argData, createdChunk>>
    /\ UNCHANGED <<argPng, argKeyword, argJson, ppc, embedded, extractKeyword, extracted>>
    /\ UNCHANGED orchVars
    /\ UNCHANGED jobVars

\* createChunk(type, data)
CreateChunk ==
    /\ cpc = "input"
    /\ createdChunk' = createChunk(argType, argData)
    /\ cpc' = "created"
    /\ UNCHANGED <<argType, argData, readKeyword, readResult>>
    /\ UNCHANGED <<argPng, argKeyword, argJson, ppc, embedded, extractKeyword, extracted>>
    /\ UNCHANGED orchVars
    /\ UNCHANGED jobVars

\* ----------------------------------- exportSingleChat as a bundle job
\* The pool calls exportSingleChat(chat, { includeCharacter, exportBundle:
\* true }): no preset and no lorebook is selected.  Every await of the
\* function stands inside its try block.
\* the bytes of the persona avatar: a PNG, or a file the codec rejects
AvatarFiles == {PNG_SIGNATURE \o IHDR \o IDAT \o IEND} \cup MalformedInputs

\* avatarBlob.arrayBuffer() resolves to the bytes, or the body read rejects
\* (the empty sequence)
AvatarBodies == {<<>>} \cup AvatarFiles

\* const personaMetadata = { name, title, content, ... }
PersonaMetadata == JObj(<<97>>, JStr(<<97>>))

\* the validation of the chat object, then `await loadJSZip()` of the
\* bundle branch (exportBundle && chat.avatar): exportChatsAsZip has loaded
\* the library before it starts a job, so loadJSZip returns window.JSZip
BundleBegin ==
    /\ jobPc = "begin"
    /\ IF jobItem.name = <<>>
       THEN JobTransition("done", "invalid",
                JobFailure("Invalid chat object: missing file_name"))
       ELSE IF jobItem.avatar = 0
       THEN JobTransition("bundleChat", "plain", jobResult)
       ELSE JobTransition("bundleChat", "loaded", jobResult)

\* await fetch('/api/chats/export', ...)
BundleChatFetch(response) ==
    /\ jobPc = "bundleChat"
    /\ IF response = "network"
       THEN JobTransition("done", response, JobFailure("Failed to fetch"))
       ELSE IF response = "status"
       THEN JobTransition("done", response, JobFailure("Chat export failed: HTTP"))
       ELSE JobTransition("bundleChatBody", response, jobResult)

\* await chatResponse.json(); without an avatar the chat is downloaded alone
BundleChatBody(body) ==
    /\ jobPc = "bundleChatBody"
    /\ IF body = "throws"
       THEN JobTransition("done", body, JobFailure("body"))
       ELSE IF ResultMissing(body)
       THEN JobTransition("done", body, JobFailure("Chat export returned no data"))
       ELSE IF jobItem.avatar = 0
       THEN JobTransition("done", body, [NoJobResult EXCEPT !.success = TRUE])
       ELSE JobTransition("bundleChar", body, jobResult)

\* await fetch('/api/characters/export', ...)
BundleCharFetch(response) ==
    /\ jobPc = "bundleChar"
    /\ IF response = "network"
       THEN JobTransition("done", response, JobFailure("Failed to fetch"))
       ELSE IF response = "status"
       THEN JobTransition("done", response, JobFailure("Character export failed: HTTP"))
       ELSE JobTransition("bundleCharBlob", response, jobResult)

\* await charResponse.blob(), then `if (user_avatar)`
BundleCharBlob(body, userAvatar) ==
    /\ jobPc = "bundleCharBlob"
    /\ IF body = "throws"
       THEN JobTransition("done", body, JobFailure("body"))
       ELSE IF userAvatar
       THEN JobTransition("bundlePersona", body, jobResult)
       ELSE JobTransition("bundleZip", body, jobResult)

\* await fetch(`/User Avatars/${user_avatar}`) inside the inner try block:
\* catch (personaError) { ... Continue without persona - not critical }
BundlePersonaFetch(response) ==
    /\ jobPc = "bundlePersona"
    /\ IF response = "network"
       THEN JobTransition("bundleZip", "personaNetwork", jobResult)
       ELSE IF response = "status"
       THEN JobTransition("bundleZip", "personaStatus", jobResult)
       ELSE JobTransition("bundlePersonaBody", response, jobResult)

\* await avatarBlob.arrayBuffer(), then embedMetadataInPNG(pngData, 'chara',
\* personaMetadata) inside the inner try block
BundlePersonaBody(body) ==
    /\ jobPc = "bundlePersonaBody"
    /\ IF body = <<>>
       THEN JobTransition("bundleZip", "personaThrows", jobResult)
       ELSE IF embedMetadataInPNG(body, KW_chara, PersonaMetadata).error # "none"
       THEN JobTransition("bundleZip", "personaFormat", jobResult)
       ELSE JobTransition("bundleZip", "persona", jobResult)

\* await zip.generateAsync({ type: 'blob' }); downloadBlob; return { success: true }
BundleZip(zipBlob) ==
    /\ jobPc = "bundleZip"
    /\ IF zipBlob = "throws"
       THEN JobTransition("done", zipBlob, JobFailure("zip"))
       ELSE JobTransition("done", zipBlob, [NoJobResult EXCEPT !.success = TRUE])

\* --------------------------------------------------- exportPersonasAsZip
\* the bytes of the avatar file of a persona: avatar 1 is a PNG, avatar 2 a
\* JPEG file
AvatarFile(a) ==
    IF a = 2 THEN <<255, 216, 255, 224, 0, 16, 74, 70, 73, 70>>
    ELSE PNG_SIGNATURE \o IHDR \o IDAT \o IEND

\* embedMetadataInPNG(pngData, 'persona', personaMetadata) returns for the
\* avatar file a, it does not throw
AvatarEmbeds ==
    [a \in 0..2 |->
        embedMetadataInPNG(AvatarFile(a), KW_persona, PersonaMetadata).error = "none"]

\* the try block of one pass of `for (const id of personaIds)` completes:
\* the persona is found, it has an avatar, the avatar is fetched (failing
\* holds the positions whose fetch fails) and embedMetadataInPNG does not throw
PersonaSucceeds(i) ==
    /\ ids[i].present
    /\ ids[i].avatar # 0
    /\ i \notin failing
    /\ AvatarEmbeds[ids[i].avatar]

\* one pass of the loop with a catch block that leaves the loop
PersonaStepBreak ==
    /\ pc = "personas"
    /\ idx <= Len(ids)
    /\ IF PersonaSucceeds(idx)
       THEN /\ zipFiles' = Append(zipFiles, idx)
            /\ exported' = exported + 1
            /\ UNCHANGED <<failed, errors>>
       ELSE /\ failed' = failed + 1
            /\ errors' = Append(errors, idx)
            /\ UNCHANGED <<zipFiles, exported>>
    /\ outcome' = [outcome EXCEPT ![idx] =
                     [NoOutcome EXCEPT !.settled = TRUE, !.job = idx,
                                       !.success = PersonaSucceeds(idx)]]
    /\ idx' = IF PersonaSucceeds(idx) THEN idx + 1 ELSE Len(ids) + 1
    /\ UNCHANGED pngVars
    /\ UNCHANGED jobVars
    /\ UNCHANGED <<kind, ids, failing, stuck, pc, queue, inProgress, raceWinner,
                   results, started, bundleExported, includedCharacters,
                   charAdds, downloaded, report>>

\* one pass of `for (const id of personaIds)`
PersonaStep ==
    /\ pc = "personas"
    /\ idx <= Len(ids)
    /\ IF PersonaSucceeds(idx)
       THEN /\ zipFiles' = Append(zipFiles, idx)
            /\ exported' = exported + 1
            /\ UNCHANGED <<failed, errors>>
       ELSE /\ failed' = failed + 1
            /\ errors' = Append(errors, idx)
            /\ UNCHANGED <<zipFiles, exported>>
    /\ outcome' = [outcome EXCEPT ![idx] =
                     [NoOutcome EXCEPT !.settled = TRUE, !.job = idx,
                                       !.success = PersonaSucceeds(idx)]]
    /\ idx' = idx + 1
    /\ UNCHANGED pngVars
    /\ UNCHANGED jobVars
    /\ UNCHANGED <<kind, ids, failing, stuck, pc, queue, inProgress, raceWinner,
                   results, started, bundleExported, includedCharacters,
                   charAdds, downloaded, report>>

\* exportPersonasAsZip after its for loop
PersonasFinish ==
    /\ pc = "personas"
    /\ idx > Len(ids)
    /\ IF exported = 0
       THEN /\ Finish(FailureReport(Len(ids)))
            /\ UNCHANGED downloaded
       ELSE /\ Finish(SuccessReport(exported, failed, errors))
            /\ downloaded' = TRUE
    /\ UNCHANGED pngVars
    /\ UNCHANGED jobVars
    /\ UNCHANGED <<kind, ids, failing, stuck, queue, inProgress, raceWinner, results,
                   started, outcome, idx, exported, failed, bundleExported,
                   errors, includedCharacters, charAdds, zipFiles>>

\* ------------------------------------------------------ specifications
\* no export runs
OrchIdle ==
    /\ kind = "none"
    /\ ids = <<>>
    /\ failing = {}
    /\ stuck = 0
    /\ pc = "off"
    /\ queue = <<>>
    /\ inProgress = {}
    /\ raceWinner = 0
    /\ results = <<>>
    /\ started = <<>>
    /\ outcome = <<>>
    /\ idx = 1
    /\ exported = 0
    /\ failed = 0
    /\ bundleExported = 0
    /\ errors = <<>>
    /\ includedCharacters = {}
    /\ charAdds = [a \in 0..MaxAvatars |-> 0]
    /\ zipFiles = <<>>
    /\ downloaded = FALSE
    /\ report = NoReport

\* the codec is not called
\* readTextChunk and createChunk are not called on their own
ChunkIdle ==
    /\ argType = <<>>
    /\ argData = <<>>
    /\ cpc = "off"
    /\ readKeyword = <<>>
    /\ readResult = NoText
    /\ createdChunk = <<>>

\* embedMetadataInPNG and extractMetadataFromPNG are not called
CodecIdle ==
    /\ argPng = <<>>
    /\ argKeyword = <<>>
    /\ argJson = JNull
    /\ ppc = "off"
    /\ embedded = NoBytes
    /\ extractKeyword = <<>>
    /\ extracted = Absent("none")

PngIdle ==
    /\ CodecIdle
    /\ ChunkIdle

\* no job runner is stepped on its own
JobIdle ==
    /\ jobKind = "none"
    /\ jobItem = Named(Item(FALSE, 0, FALSE, FALSE), <<>>)
    /\ jobPc = "off"
    /\ jobFetches = <<>>
    /\ jobResult = NoJobResult

\* one of the three batch exports is called
Init ==
    /\ kind \in {"characters", "chats", "personas"}
    /\ ids \in CASE kind = "characters" ->
                       {DefaultNames(s) : s \in CharacterInputs} \cup NamedInputs
               [] kind = "chats" ->
                       {DefaultNames(s) : s \in ChatInputs} \cup NamedInputs
               [] OTHER ->
                       {DefaultNames(s) : s \in PersonaInputs} \cup NamedInputs
    /\ failing \in FailingSets(ids)
    /\ stuck = 0
    /\ pc = "start"
    /\ queue = <<>>
    /\ inProgress = {}
    /\ raceWinner = 0
    /\ results = <<>>
    /\ started = [i \in DOMAIN ids |-> 0]
    /\ outcome = [i \in DOMAIN ids |-> NoOutcome]
    /\ idx = 1
    /\ exported = 0
    /\ failed = 0
    /\ bundleExported = 0
    /\ errors = <<>>
    /\ includedCharacters = {}
    /\ charAdds = [a \in 0..MaxAvatars |-> 0]
    /\ zipFiles = <<>>
    /\ downloaded = FALSE
    /\ report = NoReport
    /\ PngIdle
    /\ JobIdle

\* one of the three batch exports is called; in a pool of two or more jobs
\* the fetch of one of them never resolves, a single job may also run to its
\* end (exportPersonasAsZip has no pool)
InitStuck ==
    /\ kind \in {"characters", "chats", "personas"}
    /\ ids \in CASE kind = "characters" -> {DefaultNames(s) : s \in CharacterInputs}
               [] kind = "chats" -> {DefaultNames(s) : s \in ChatInputs}
               [] OTHER -> {DefaultNames(s) : s \in PersonaInputs}
    /\ failing \in FailingSets(ids)
    /\ stuck \in IF kind = "personas" THEN {0}
                ELSE IF Cardinality(Positions(ids)) <= 1 THEN {0} \cup Positions(ids)
                ELSE Positions(ids)
    /\ pc = "start"
    /\ queue = <<>>
    /\ inProgress = {}
    /\ raceWinner = 0
    /\ results = <<>>
    /\ started = [i \in DOMAIN ids |-> 0]
    /\ outcome = [i \in DOMAIN ids |-> NoOutcome]
    /\ idx = 1
    /\ exported = 0
    /\ failed = 0
    /\ bundleExported = 0
    /\ errors = <<>>
    /\ includedCharacters = {}
    /\ charAdds = [a \in 0..MaxAvatars |-> 0]
    /\ zipFiles = <<>>
    /\ downloaded = FALSE
    /\ report = NoReport
    /\ PngIdle
    /\ JobIdle

\* the codec is called on a file, a keyword and a value
InitPng ==
    /\ argPng \in PngInputs
    /\ argKeyword \in Keywords
    /\ argJson \in JsonValues
    /\ ppc = "input"
    /\ embedded = NoBytes
    /\ extractKeyword = <<>>
    /\ extracted = Absent("none")
    /\ ChunkIdle
    /\ OrchIdle
    /\ JobIdle

\* readTextChunk or createChunk is called on a type and a payload
InitChunk ==
    /\ argType \in ChunkTypes
    /\ argData \in ChunkPayloads
    /\ cpc = "input"
    /\ readKeyword = <<>>
    /\ readResult = NoText
    /\ createdChunk = <<>>
    /\ CodecIdle
    /\ OrchIdle
    /\ JobIdle

\* exportSingleCharacterToBlob or exportSingleChatToBlob is called, or
\* exportSingleChat for a bundle job of the pool
InitJob ==
    /\ jobKind \in {"character", "chat", "bundle"}
    /\ jobItem \in {Named(it, n) :
                       it \in CASE jobKind = "chat" ->
                                    {c \in ChatItems : ~c.exportBundle}
                                      \cup {Item(TRUE, 0, TRUE, FALSE)}
                               [] jobKind = "bundle" ->
                                    {Item(TRUE, a, TRUE, TRUE) : a \in 0..1}
                               [] OTHER -> {Item(TRUE, 1, FALSE, FALSE)},
                       n \in RawNames \cup (IF jobKind = "bundle" THEN {<<>>} ELSE {})}
    /\ jobPc = IF jobKind = "bundle" THEN "begin" ELSE "fetch"
    /\ jobFetches = <<>>
    /\ jobResult = NoJobResult
    /\ OrchIdle
    /\ PngIdle

Next ==
    \/ BeginCharacters
    \/ BeginChats
    \/ BeginPersonas
    \/ PoolLoop
    \/ \E j \in DOMAIN ids : JobSettle(j)
    \/ Resume
    \/ AggregateCharacters
    \/ AggregateChats
    \/ PersonaStep
    \/ PersonasFinish

Spec == Init /\ [][Next]_vars

\* the batches whose file names differ from position to position: the names
\* decide no branch of the entry points, only the names of the members
InitFair ==
    /\ Init
    /\ \A i \in DOMAIN ids : ids[i].name = DefaultName(i)

\* The event loop runs every continuation of the entry point that is ready,
\* and a job that is in flight eventually settles.
FairSpec ==
    /\ InitFair
    /\ [][Next]_vars
    /\ WF_vars(BeginCharacters \/ BeginChats \/ BeginPersonas \/ PoolLoop \/ Resume
                 \/ AggregateCharacters \/ AggregateChats
                 \/ PersonaStep \/ PersonasFinish)
    /\ WF_vars(\E j \in DOMAIN ids : JobSettle(j))

\* The event loop runs every continuation that is ready and every job in
\* flight eventually settles, but for the job whose fetch never resolves.
StuckSpec ==
    /\ InitStuck
    /\ [][Next]_vars
    /\ WF_vars(BeginCharacters \/ BeginChats \/ BeginPersonas \/ PoolLoop \/ Resume
                 \/ AggregateCharacters \/ AggregateChats
                 \/ PersonaStep \/ PersonasFinish)
    /\ WF_vars(\E j \in DOMAIN ids : JobSettle(j))

NextPng ==
    \/ Embed
    \/ \E k \in Keywords : Extract(k)

SpecPng == InitPng /\ [][NextPng]_vars

NextJob ==
    \/ \E response \in FetchOutcomes : JobFetch(response) \/ JobCharFetch(response)
    \/ \E body \in JsonOutcomes \cup BlobOutcomes : JobBody(body)
    \/ \E body \in BlobOutcomes : JobCharBlob(body)
    \/ BundleBegin
    \/ \E response \in FetchOutcomes : BundleChatFetch(response)
    \/ \E body \in JsonOutcomes : BundleChatBody(body)
    \/ \E response \in FetchOutcomes : BundleCharFetch(response)
    \/ \E body \in BlobOutcomes, userAvatar \in BOOLEAN : BundleCharBlob(body, userAvatar)
    \/ \E response \in FetchOutcomes : BundlePersonaFetch(response)
    \/ \E body \in AvatarBodies : BundlePersonaBody(body)
    \/ \E zipBlob \in BlobOutcomes : BundleZip(zipBlob)

NextChunk ==
    \/ CreateChunk
    \/ \E k \in Keywords : ReadText(k)

SpecChunk == InitChunk /\ [][NextChunk]_vars

SpecJob == InitJob /\ [][NextJob]_vars

\* ------------------------------------------------ orchestrator properties
\* the jobs handed to the pool
PoolJobs ==
    CASE kind = "characters" -> Positions(ids)
      [] kind = "chats" -> DOMAIN ids
      [] OTHER -> {}

\* every job of the invocation (the personas are processed without a pool)
AllJobs == IF kind = "personas" THEN DOMAIN ids ELSE PoolJobs

Running == {j \in DOMAIN ids : started[j] > 0 /\ ~outcome[j].settled}

Succeeded == {j \in AllJobs : outcome[j].settled /\ outcome[j].success}

Failed == {j \in AllJobs : outcome[j].settled /\ ~outcome[j].success}

Recorded(j) == \E i \in 1..Len(results) : results[i].job = j

RECURSIVE FailedJobsOf(_, _)
FailedJobsOf(rs, n) ==
    IF n = 0 THEN <<>>
    ELSE IF rs[n].success THEN FailedJobsOf(rs, n - 1)
    ELSE Append(FailedJobsOf(rs, n - 1), rs[n].job)

RECURSIVE Ascending(_, _)
Ascending(S, n) ==
    IF n = 0 THEN <<>>
    ELSE IF n \in S THEN Append(Ascending(S, n - 1), n)
    ELSE Ascending(S, n - 1)

\* C1: when the pool loop has exited, results holds exactly one entry for
\* every job handed to the pool: none is lost and none is duplicated.
C1_ResultsComplete ==
    pc = "aggregate" =>
        /\ Len(results) = Cardinality(PoolJobs)
        /\ \A j \in PoolJobs :
              Cardinality({i \in 1..Len(results) : results[i].job = j}) = 1

\* C2: at most MAX_CONCURRENT_EXPORTS jobs are started and not yet settled.
C2_ConcurrencyBound == Cardinality(Running) <= MAX_CONCURRENT_EXPORTS

C2_Witness ==
    /\ Cardinality(Running) = MAX_CONCURRENT_EXPORTS
    /\ Len(queue) > 0
    /\ pc = "wait"

\* C3: every report returned satisfies exported + failed = number of
\* submitted items.
C3_TotalAccounting ==
    (pc = "done" /\ report.kind = "report") =>
        report.exported + report.failed = Len(ids)

\* C4: when a job of the batch failed, every other job has been started
\* once, has run to the outcome its own input decides, and has its result
\* recorded in results when the pool loop exits.
C4_Isolation ==
    pc = "aggregate" =>
        \A i \in Failed : \A j \in PoolJobs \ {i} :
            /\ started[j] = 1
            /\ outcome[j].settled
            /\ outcome[j].success = (j \notin failing)
            /\ Recorded(j)

\* C7: the orchestrator never starts to wait on an empty in-flight set, and
\* every invocation eventually returns with queue and in-flight set empty.
C7_Termination ==
    /\ [](pc = "wait" /\ raceWinner = 0 => inProgress # {})
    /\ <>(pc = "done" /\ Len(queue) = 0 /\ inProgress = {})

C7_Witness ==
    /\ pc = "done"
    /\ kind = "characters"
    /\ Cardinality(PoolJobs) > MAX_CONCURRENT_EXPORTS
    /\ Len(queue) = 0
    /\ inProgress = {}

\* C8: when no job succeeds the report is an overall failure with
\* exported = 0 and no archive is downloaded; a partial success is told
\* apart from it by a report with success = TRUE.
C8_TotalFailure ==
    pc = "done" =>
        /\ Succeeded = {} =>
              /\ report.kind = "report"
              /\ ~report.success
              /\ report.exported = 0
              /\ ~downloaded
        /\ (Succeeded # {} /\ Failed # {}) =>
              /\ report.kind = "report"
              /\ report.success

\* C9: with at least one succeeded and at least one failed job the report
\* has success = TRUE and one reason per failed job, in the order the failed
\* results were recorded; a success report without failed jobs has no list.
C9_PartialSuccess ==
    pc = "done" =>
        /\ (Succeeded # {} /\ Failed # {}) =>
              /\ report.kind = "report"
              /\ report.success
              /\ report.hasErrors
              /\ Len(report.errors) = report.failed
              /\ Len(report.errors) = Cardinality(Failed)
              /\ report.errors =
                    IF kind = "personas" THEN Ascending(Failed, Len(ids))
                    ELSE FailedJobsOf(results, Len(results))
        /\ (report.kind = "report" /\ report.success /\ Failed = {}) =>
              ~report.hasErrors

\* C10: exportChatsAsZip adds the character file of an avatar at most once,
\* and includedCharacters holds exactly the avatars whose file was added.
C10_CharacterOnce ==
    /\ \A a \in 0..MaxAvatars : charAdds[a] <= 1
    /\ includedCharacters = {a \in 0..MaxAvatars : charAdds[a] > 0}

C10_Witness ==
    /\ pc = "done"
    /\ kind = "chats"
    /\ \E i, j \in 1..Len(results) :
          /\ i < j
          /\ results[i].hasChar /\ results[j].hasChar
          /\ results[i].avatarUrl = results[j].avatarUrl
          /\ charAdds[results[i].avatarUrl] = 1

\* --------------------------------------------- properties of the codec
\* a valid PNG byte stream: the signature, chunks that lie within the file,
\* the last of them a zero-length IEND (bytes may follow it)
WellFormed(p) ==
    LET parsed == parseChunks(p)
        n == Len(parsed.chunks)
    IN /\ parsed.error = "none"
       /\ n > 0
       /\ parsed.chunks[n].type = TYPE_IEND
       /\ parsed.chunks[n].data = <<>>
       /\ parsed.chunks[n].offset + 12 <= Len(p)
       /\ \A i \in 1..n :
             /\ Len(parsed.chunks[i].type) = 4
             /\ i < n => parsed.chunks[i + 1].offset
                           = parsed.chunks[i].offset + 12 + Len(parsed.chunks[i].data)

\* C5: for a valid PNG p, a value v and a keyword k,
\* extractMetadataFromPNG(embedMetadataInPNG(p, k, v), k) is v, also when p
\* already carries a tEXt chunk with keyword k.
C5_RoundTrip ==
    (ppc = "extracted" /\ WellFormed(argPng) /\ extractKeyword = argKeyword) =>
        /\ extracted.error = "none"
        /\ extracted.found
        /\ extracted.value = argJson

\* C6: for a valid PNG p, parseChunks of the output of embedMetadataInPNG is
\* parseChunks(p) with one tEXt chunk inserted just before IEND: the earlier
\* chunks keep type, payload and offset, IEND keeps type and payload and
\* moves by the length of the new chunk, and the bytes of p before and from
\* IEND on (trailing bytes included) are in the output unaltered.
C6_ChunksPreserved ==
    (ppc = "embedded" /\ WellFormed(argPng)) =>
        /\ embedded.error = "none"
        /\ LET before == parseChunks(argPng).chunks
               after == parseChunks(embedded.bytes)
               n == Len(before)
               at == before[n].offset
               added == Len(embedded.bytes) - Len(argPng)
           IN /\ after.error = "none"
              /\ Len(after.chunks) = n + 1
              /\ \A i \in 1..(n - 1) : after.chunks[i] = before[i]
              /\ after.chunks[n].type = TYPE_tEXt
              /\ after.chunks[n].offset = at
              /\ added = 12 + Len(after.chunks[n].data)
              /\ after.chunks[n + 1].type = TYPE_IEND
              /\ after.chunks[n + 1].data = before[n].data
              /\ after.chunks[n + 1].offset = at + added
              /\ Slice(embedded.bytes, 0, at) = Slice(argPng, 0, at)
              /\ Slice(embedded.bytes, at + added, Len(embedded.bytes))
                   = Slice(argPng, at, Len(argPng))

\* a file with a text chunk and bytes after IEND has been embedded into
C6_Witness ==
    /\ ppc = "embedded"
    /\ WellFormed(argPng)
    /\ embedded.error = "none"
    /\ Len(embedded.bytes) > Len(argPng)
    /\ Len(parseChunks(argPng).chunks) > 3
    /\ Len(argPng) > parseChunks(argPng).chunks[Len(parseChunks(argPng).chunks)].offset + 12

\* ------------------------------------------ properties of the job runners
\* the awaited fetches and bodies of the job that ended as f
JobSaw(f) == \E i \in 1..Len(jobFetches) : jobFetches[i] = f

JobFailed == ~jobResult.success /\ jobResult.error # ""

C12_MembersMatchExported ==
    (pc = "done" /\ report.kind = "report" /\ report.success) =>
        Cardinality(ZipMembers) = report.exported

\* the first 8 bytes of p are not the PNG signature
BadSignature(p) == \E i \in 1..8 : i > Len(p) \/ p[i] # PNG_SIGNATURE[i]

\* the chunk walk of p ends without an IEND chunk
WalkFindsNoIEND(p) ==
    /\ ~BadSignature(p)
    /\ parseChunks(p).error = "none"
    /\ \A i \in 1..Len(parseChunks(p).chunks) : parseChunks(p).chunks[i].type # TYPE_IEND

\* C13: embedMetadataInPNG and parseChunks fail with 'Invalid PNG signature'
\* when the first 8 bytes are not the signature, embedMetadataInPNG fails
\* with 'PNG missing IEND chunk' when the chunk walk finds no IEND, and a
\* failing call returns no bytes.
C13_FormatErrors ==
    /\ (ppc = "embedded" /\ BadSignature(argPng)) =>
           embedded = [error |-> "Invalid PNG signature", bytes |-> <<>>]
    /\ (ppc = "probed" /\ BadSignature(argPng)) =>
           extracted = Absent("Invalid PNG signature")
    /\ (ppc = "embedded" /\ WalkFindsNoIEND(argPng)) =>
           embedded = [error |-> "PNG missing IEND chunk", bytes |-> <<>>]
    /\ (ppc = "embedded" /\ embedded.error # "none") => embedded.bytes = <<>>

\* a file with chunks but no IEND has been rejected
C13_Witness ==
    /\ ppc = "embedded"
    /\ WalkFindsNoIEND(argPng)
    /\ Len(parseChunks(argPng).chunks) > 0
    /\ embedded.error = "PNG missing IEND chunk"

\* C14: for every input byte sequence embedMetadataInPNG returns a result or
\* fails with one of the two format errors, never with a third error.
C14_OnlyTwoErrors ==
    ppc = "embedded" =>
        embedded.error \in {"none", "Invalid PNG signature", "PNG missing IEND chunk"}

\* the bytes handed to the last extractMetadataFromPNG
ExtractInput == IF ppc = "probed" THEN argPng ELSE embedded.bytes

\* the keyword stored in a tEXt chunk, the bytes before its first zero byte, is k
StoredKeywordIs(chunk, k) ==
    /\ chunk.type = TYPE_tEXt
    /\ \E n \in 1..Len(chunk.data) :
          /\ chunk.data[n] = 0
          /\ \A m \in 1..(n - 1) : chunk.data[m] # 0
          /\ SubSeq(chunk.data, 1, n - 1) = k

\* the text of a tEXt chunk, the bytes after its first zero byte
StoredText(chunk) ==
    LET n == CHOOSE i \in 1..Len(chunk.data) :
                 chunk.data[i] = 0 /\ \A m \in 1..(i - 1) : chunk.data[m] # 0
    IN SubSeq(chunk.data, n + 1, Len(chunk.data))

\* the positions of the chunks of p whose stored keyword is k
Matching(p, k) ==
    LET chunks == parseChunks(p).chunks
    IN {i \in 1..Len(chunks) : StoredKeywordIs(chunks[i], k)}

\* C15: extractMetadataFromPNG(p, k) returns null when p has no tEXt chunk
\* whose stored keyword equals k: no text chunk at all, text chunks with
\* another keyword, text chunks without a zero separator.
C15_AbsentWithoutKeyword ==
    (/\ ppc \in {"probed", "extracted"}
     /\ parseChunks(ExtractInput).error = "none"
     /\ Matching(ExtractInput, extractKeyword) = {}) => extracted = Absent("none")

\* a file whose only text chunk stores a longer keyword has been probed
C15_Witness ==
    /\ ppc = "probed"
    /\ extractKeyword = KW_char
    /\ Matching(argPng, KW_chara) # {}
    /\ Matching(argPng, KW_char) = {}
    /\ extracted = Absent("none")

\* C16: when the text of the matching tEXt chunk is raw JSON text, stored
\* without base64, extractMetadataFromPNG returns the value of that text.
C16_LegacyFallback ==
    (/\ ppc = "probed"
     /\ parseChunks(argPng).error = "none"
     /\ Matching(argPng, extractKeyword) # {}) =>
        LET first == CHOOSE i \in Matching(argPng, extractKeyword) :
                         \A j \in Matching(argPng, extractKeyword) : i <= j
            raw == JSONparse(Utf8Decode(StoredText(parseChunks(argPng).chunks[first])))
        IN raw.ok => (extracted.found /\ extracted.value = raw.value)

\* C17: for a valid PNG p the output of embedMetadataInPNG(p, k, v) is
\* 12 + length(k) + 1 + 4 * ceil(n / 3) bytes longer than p, n the number of
\* UTF-8 bytes of the JSON text of v.
C17_OutputLength ==
    (ppc = "embedded" /\ WellFormed(argPng)) =>
        LET n == Len(Utf8Encode(JSONstringify(argJson)))
        IN Len(embedded.bytes)
             = Len(argPng) + 12 + Len(argKeyword) + 1 + 4 * ((n + 2) \div 3)

\* a value whose JSON text has a character of two UTF-8 bytes has been embedded
C17_Witness ==
    /\ ppc = "embedded"
    /\ WellFormed(argPng)
    /\ embedded.error = "none"
    /\ Len(Utf8Encode(JSONstringify(argJson))) > Len(JSONstringify(argJson))

\* C19: exportChatsAsZip resolves to a report with success, exported and
\* failed on every path, also when only bundle jobs succeeded.
C19_ChatsAlwaysReport ==
    (pc = "done" /\ kind = "chats") => report.kind = "report"

Queued(j) == \E i \in 1..Len(queue) : queue[i] = j

\* C20: every job of the pool goes Queued -> Running -> {Succeeded, Failed}:
\* it is started at most once and exactly once when the loop has ended, a
\* settled job is neither queued nor in flight, and the outcome of a settled
\* job never changes.
C20_JobLifecycle ==
    /\ [](\A j \in DOMAIN ids :
            /\ started[j] <= 1
            /\ Queued(j) => (started[j] = 0 /\ ~outcome[j].settled)
            /\ j \in inProgress => (started[j] = 1 /\ ~outcome[j].settled /\ ~Queued(j))
            /\ outcome[j].settled => (j \notin inProgress /\ ~Queued(j))
            /\ (pc = "aggregate" /\ j \in PoolJobs) =>
                  (started[j] = 1 /\ outcome[j].settled))
    /\ [][\A j \in DOMAIN ids :
            /\ outcome[j].settled => outcome'[j] = outcome[j]
            /\ started'[j] >= started[j]]_vars

\* a batch larger than the pool has run: every job was queued, started once
\* and has settled
C20_Witness ==
    /\ pc = "aggregate"
    /\ Cardinality(PoolJobs) > MAX_CONCURRENT_EXPORTS
    /\ \A j \in PoolJobs : started[j] = 1 /\ outcome[j].settled

\* C21: jobs are started in submission order: a job is started only when
\* every job submitted before it has been started, the queue holds the jobs
\* not yet started in submission order, and a job is started only while
\* fewer than MAX_CONCURRENT_EXPORTS jobs are in flight.
C21_FifoStart ==
    /\ [](\A i, j \in PoolJobs : (i < j /\ started[j] > 0) => started[i] > 0)
    /\ [](pc \in {"loop", "wait"} =>
            /\ \A a, b \in 1..Len(queue) : a < b => queue[a] < queue[b]
            /\ {queue[a] : a \in 1..Len(queue)} = {j \in PoolJobs : started[j] = 0})
    /\ [][\A j \in DOMAIN ids :
            started'[j] > started[j] =>
                /\ Cardinality(inProgress) < MAX_CONCURRENT_EXPORTS
                /\ Cardinality(inProgress') <= MAX_CONCURRENT_EXPORTS
                /\ j \in inProgress']_vars

\* the last job of a batch larger than the pool was started after an earlier
\* job had settled, while the others were still in flight
C21_Witness ==
    /\ pc = "wait"
    /\ Cardinality(PoolJobs) > MAX_CONCURRENT_EXPORTS
    /\ Len(queue) = 0
    /\ Cardinality(inProgress) = MAX_CONCURRENT_EXPORTS
    /\ \E j \in PoolJobs : outcome[j].settled /\ j > 1

\* C22: results is ordered by completion.  Every entry of results is the
\* outcome of a settled job; results grows only at its end, by the outcome of
\* the job that won the pending race; the winner of the race has settled and
\* is not yet recorded; and a job that has settled without winning the race
\* stays so at every step, so it is never recorded afterwards.  Hence of two recorded jobs the one that
\* settled first stands first, whatever their submission positions.
C22_CompletionOrder ==
    /\ [](\A i \in 1..Len(results) :
            /\ outcome[results[i].job].settled
            /\ results[i] = outcome[results[i].job])
    /\ [](raceWinner # 0 => (outcome[raceWinner].settled /\ ~Recorded(raceWinner)))
    /\ [][\/ results' = results
          \/ /\ raceWinner # 0
             /\ results' = Append(results, outcome[raceWinner])]_vars
    /\ [][\A j \in DOMAIN ids :
            (/\ outcome[j].settled
             /\ ~Recorded(j)
             /\ raceWinner # j)
                => (/\ outcome'[j].settled
                    /\ ~Recorded(j)'
                    /\ raceWinner' # j)]_vars

\* the results of a batch stand in another order than the jobs were submitted
C22_Witness ==
    /\ pc = "aggregate"
    /\ \E i, k \in 1..Len(results) : i < k /\ results[i].job > results[k].job

\* C23: the aggregation and the report come only when no job is queued or
\* running.  Whenever the entry point aggregates or has returned, and
\* whenever something was added to the archive, counted or downloaded, the
\* queue is empty, the in-flight set is empty and every started job has
\* settled; a started job is never taken back (its start is not undone and
\* it stays in flight until it settles).
C23_ReportAfterAllSettled ==
    /\ []((\/ pc \in {"aggregate", "done"}
           \/ report.kind # "none"
           \/ downloaded
           \/ (kind # "personas" /\ (zipFiles # <<>> \/ exported + failed > 0)))
             => (/\ Len(queue) = 0
                 /\ inProgress = {}
                 /\ Running = {}))
    /\ [][\A j \in DOMAIN ids :
            /\ started[j] > 0 => started'[j] = started[j]
            /\ (j \in inProgress /\ j \notin inProgress') => outcome'[j].settled]_vars

\* a batch larger than the pool has been aggregated into a downloaded archive
C23_Witness ==
    /\ pc = "done"
    /\ downloaded
    /\ report.kind = "report"
    /\ Cardinality(PoolJobs) > MAX_CONCURRENT_EXPORTS
    /\ \A j \in PoolJobs : started[j] = 1 /\ outcome[j].settled

\* C24: when the one job whose fetch never resolves has been started, every
\* other job handed to the pool is still eventually started once and
\* settled, but the entry point never leaves the pool loop: it never
\* aggregates and never returns a report, and the stuck job is never turned
\* into a failure.
C24_StuckJobStallsBatch ==
    /\ []((stuck \in DOMAIN ids /\ started[stuck] > 0) =>
            /\ pc \in {"loop", "wait"}
            /\ report.kind = "none"
            /\ ~outcome[stuck].settled
            /\ stuck \in inProgress)
    /\ (stuck \in DOMAIN ids /\ started[stuck] > 0)
          ~> (\A j \in PoolJobs \ {stuck} : started[j] = 1 /\ outcome[j].settled)

\* the stuck job alone is left in flight of a batch that needed all slots:
\* the others have settled and the entry point waits
C24_Witness ==
    /\ stuck # 0
    /\ pc = "wait"
    /\ raceWinner = 0
    /\ inProgress = {stuck}
    /\ Len(queue) = 0
    /\ Cardinality(PoolJobs) >= MAX_CONCURRENT_EXPORTS
    /\ \A j \in PoolJobs \ {stuck} : started[j] = 1 /\ outcome[j].settled

\* an error was raised inside the job: an awaited fetch or body read
\* rejected, the chat object or the response body was found invalid, or
\* embedMetadataInPNG threw
JobRaised ==
    \/ JobSaw("network") \/ JobSaw("throws") \/ JobSaw("noresult") \/ JobSaw("invalid")
    \/ JobSaw("personaNetwork") \/ JobSaw("personaThrows") \/ JobSaw("personaFormat")

\* an error was raised while the bundle job added the persona
PersonaRaised ==
    JobSaw("personaNetwork") \/ JobSaw("personaThrows") \/ JobSaw("personaFormat")

C26_FirstChunkWins ==
    (/\ ppc = "extracted"
     /\ WellFormed(argPng)
     /\ extractKeyword = argKeyword
     /\ Matching(argPng, argKeyword) # {}) =>
        LET before == parseChunks(argPng).chunks
            after == parseChunks(embedded.bytes).chunks
            n == Len(before)
            first == CHOOSE i \in Matching(argPng, argKeyword) :
                         \A j \in Matching(argPng, argKeyword) : i <= j
            v1 == extractMetadataFromPNG(argPng, argKeyword)
        IN /\ Matching(embedded.bytes, argKeyword) = Matching(argPng, argKeyword) \cup {n}
           /\ first < n
           /\ after[first] = before[first]
           /\ StoredText(after[n]) = btoa(Utf8Encode(JSONstringify(argJson)))
           /\ v1.found => (extracted.found /\ extracted.value = v1.value)
           /\ extracted = DecodeText(Utf8Decode(StoredText(before[first])))

\* a file that carried one value under the keyword has been given another:
\* the file now has two matching chunks and the first value is returned
C26_Witness ==
    /\ ppc = "extracted"
    /\ WellFormed(argPng)
    /\ extractKeyword = argKeyword
    /\ Cardinality(Matching(embedded.bytes, argKeyword)) = 2
    /\ extracted.found
    /\ extracted.value # argJson
    /\ extracted.value = extractMetadataFromPNG(argPng, argKeyword).value

\* C27: for the first matching tEXt chunk extractMetadataFromPNG tries the
\* base64-decoded text and then the raw text, in this order: it returns the
\* value of the base64-decoded text when that parses as JSON, otherwise the
\* value of the raw text when that parses as JSON, and absent only when
\* neither parses.
C27_TwoAttempts ==
    (/\ ppc = "probed"
     /\ parseChunks(argPng).error = "none"
     /\ Matching(argPng, extractKeyword) # {}) =>
        LET first == CHOOSE i \in Matching(argPng, extractKeyword) :
                         \A j \in Matching(argPng, extractKeyword) : i <= j
            text == Utf8Decode(StoredText(parseChunks(argPng).chunks[first]))
            decoded == atob(text)
            viaBase64 == IF decoded.ok THEN JSONparse(Utf8Decode(decoded.bytes))
                         ELSE NoParse
            raw == JSONparse(text)
        IN /\ viaBase64.ok => (extracted.found /\ extracted.value = viaBase64.value)
           /\ (~viaBase64.ok /\ raw.ok) => (extracted.found /\ extracted.value = raw.value)
           /\ (~viaBase64.ok /\ ~raw.ok) => extracted = Absent("none")

\* C28: parseChunks stops at the first IEND chunk: the chunks it returns
\* hold at most one IEND, which is the last of them, and nothing that
\* follows the first IEND in the file is among them; insertChunkBeforeIEND
\* still copies every byte from the offset of that IEND to the end of the
\* input, the bytes after IEND included, unchanged to the end of its output.
C28_StopsAtIEND ==
    /\ (ppc \in {"probed", "embedded"} /\ parseChunks(argPng).error = "none") =>
          LET chunks == parseChunks(argPng).chunks
              n == Len(chunks)
          IN /\ Cardinality({i \in 1..n : chunks[i].type = TYPE_IEND}) <= 1
             /\ \A i \in 1..n : chunks[i].type = TYPE_IEND => i = n
             /\ \A i \in 1..n : chunks[i].offset <= chunks[n].offset
             /\ \A i \in 1..(n - 1) :
                   chunks[i].offset + 12 + Len(chunks[i].data) <= chunks[n].offset
    /\ (ppc = "embedded" /\ embedded.error = "none") =>
          LET chunks == parseChunks(argPng).chunks
              at == chunks[Len(chunks)].offset
              tail == Len(argPng) - at
          IN /\ chunks[Len(chunks)].type = TYPE_IEND
             /\ Len(embedded.bytes) > Len(argPng)
             /\ Slice(embedded.bytes, Len(embedded.bytes) - tail, Len(embedded.bytes))
                  = Slice(argPng, at, Len(argPng))
             /\ parseChunks(embedded.bytes).chunks[Len(chunks) + 1].offset
                  = Len(embedded.bytes) - tail

\* a file with an IDAT and a second IEND chunk behind its first IEND has
\* been embedded into: the walk stopped at the first IEND
C28_Witness ==
    /\ ppc = "embedded"
    /\ embedded.error = "none"
    /\ LET chunks == parseChunks(argPng).chunks
           at == chunks[Len(chunks)].offset
       IN /\ Len(argPng) >= at + 36
          /\ Slice(argPng, at + 16, at + 20) = TYPE_IDAT
          /\ Slice(argPng, Len(argPng) - 8, Len(argPng) - 4) = TYPE_IEND

\* the length that the four bytes at offset off of p declare
DeclaredLength(p, off) == getUint32(Slice(p, off, off + 4))

\* C29: the chunks parseChunks returns for an input it accepts are in file
\* order: the first has offset 8, every later one begins 12 + the declared
\* length of its predecessor after it, so the offsets increase strictly, and
\* every offset is the place of the length field of that chunk in the
\* input: the type is the four bytes after it, the payload the declared
\* number of bytes after those (as many as the file holds).
C29_FileOrder ==
    (ppc \in {"probed", "embedded"} /\ parseChunks(argPng).error = "none") =>
        LET chunks == parseChunks(argPng).chunks
            n == Len(chunks)
        IN /\ n > 0 => chunks[1].offset = 8
           /\ \A i \in 1..(n - 1) :
                 /\ chunks[i + 1].offset
                      = chunks[i].offset + 12 + DeclaredLength(argPng, chunks[i].offset)
                 /\ chunks[i].offset < chunks[i + 1].offset
           /\ \A i \in 1..n :
                 /\ chunks[i].offset + 4 <= Len(argPng)
                 /\ chunks[i].type = Slice(argPng, chunks[i].offset + 4, chunks[i].offset + 8)
                 /\ chunks[i].data
                      = Slice(argPng, chunks[i].offset + 8,
                              chunks[i].offset + 8 + DeclaredLength(argPng, chunks[i].offset))

\* a file of four or more chunks, a later one with a payload, has been parsed
C29_Witness ==
    /\ ppc = "probed"
    /\ parseChunks(argPng).error = "none"
    /\ Len(parseChunks(argPng).chunks) >= 4
    /\ \E i \in 2..Len(parseChunks(argPng).chunks) :
          /\ Len(parseChunks(argPng).chunks[i].data) > 0
          /\ parseChunks(argPng).chunks[i].offset > 8

\* why the export of the persona at position i fails: the id is not found,
\* the persona has no avatar, the avatar fetch fails, or the avatar is no
\* PNG and embedMetadataInPNG throws a format error
PersonaFailure(i) ==
    IF ~ids[i].present THEN "not found"
    ELSE IF ids[i].avatar = 0 THEN "no avatar"
    ELSE IF i \in failing THEN "fetch"
    ELSE IF BadSignature(AvatarFile(ids[i].avatar)) THEN "format"
    ELSE "none"

\* C30: in exportPersonasAsZip every persona whose export fails (id not
\* found, no avatar, failed avatar fetch, format error of the codec) is
\* counted as failed with one reason, in the order of personaIds, every
\* other persona is counted as exported, a failure does not end the loop,
\* and a success report has exported + failed = personaIds.length.
C30_PersonaFailuresCounted ==
    (kind = "personas" /\ pc \in {"personas", "done"}) =>
        LET done == 1..(idx - 1)
            bad == {i \in done : PersonaFailure(i) # "none"}
        IN /\ failed = Cardinality(bad)
           /\ exported = Cardinality(done \ bad)
           /\ errors = Ascending(bad, idx - 1)
           /\ \A i \in done : outcome[i].settled /\ outcome[i].success = (i \notin bad)
           /\ (pc = "done" /\ idx > 1) => idx = Len(ids) + 1
           /\ (pc = "done" /\ report.success) =>
                 /\ report.exported + report.failed = Len(ids)
                 /\ report.failed = Cardinality({i \in DOMAIN ids : PersonaFailure(i) # "none"})
                 /\ Len(report.errors) = report.failed

\* a persona whose avatar is no PNG was counted as failed, and a persona
\* after it was exported
C30_Witness ==
    /\ kind = "personas"
    /\ pc = "done"
    /\ report.success
    /\ \E i, j \in DOMAIN ids :
          /\ i < j
          /\ PersonaFailure(i) = "format"
          /\ ~outcome[i].success
          /\ outcome[j].success
          /\ report.errors = <<i>>

\* the positions of the zero bytes of the payload read
ZeroPositions == {i \in 1..Len(argData) : argData[i] = 0}

\* the position of the first zero byte of the payload read
FirstZero == CHOOSE z \in ZeroPositions : \A y \in ZeroPositions : z <= y

\* C31: readTextChunk splits the payload at its first zero byte only.  For
\* a chunk of type tEXt whose payload holds a zero byte and whose bytes
\* before the first zero are the expected keyword in full, it returns that
\* keyword and the text of all bytes after the first zero, later zero bytes
\* included; for a stored keyword that is a proper prefix or an extension of
\* the expected one, for a payload without zero byte and for a chunk of any
\* other type it returns absent.
C31_SplitsAtFirstZero ==
    cpc = "read" =>
        IF /\ argType = TYPE_tEXt
           /\ ZeroPositions # {}
           /\ SubSeq(argData, 1, FirstZero - 1) = readKeyword
        THEN /\ readResult.found
             /\ readResult.keyword = readKeyword
             /\ readResult.text = Utf8Decode(SubSeq(argData, FirstZero + 1, Len(argData)))
             /\ Len(readResult.text) = Len(argData) - FirstZero
        ELSE readResult = NoText

\* a tEXt chunk whose text holds a zero byte has been read under its keyword
C31_Witness ==
    /\ cpc = "read"
    /\ argType = TYPE_tEXt
    /\ readResult.found
    /\ readResult.keyword = KW_chara
    /\ Len(readResult.text) >= 2
    /\ \E i \in 1..Len(readResult.text) : readResult.text[i] = 0

\* the hexadecimal digits of 0xEDB88320, the highest first
ReflectedPolynomial == <<14, 13, 11, 8, 8, 3, 2, 0>>

\* bit i of 0xEDB88320, bit 0 the lowest
PolyBit(i) == (ReflectedPolynomial[8 - (i \div 4)] \div (2 ^ (i % 4))) % 2

\* the bits of 0xEDB88320 that are 1
PolyBits == {i \in 0..31 : PolyBit(i) = 1}

\* A 32-bit register as the set of its bits that are 1.  One step of the
\* reflected CRC: the input bit is added to the lowest bit, the register is
\* shifted right, and the polynomial is added when the sum was 1.
CrcBitStep(reg, bit) ==
    LET fb == ((IF 0 \in reg THEN 1 ELSE 0) + bit) % 2
    IN {i \in 0..31 : ((i + 1) \in reg) # (fb = 1 /\ i \in PolyBits)}

\* bit k of byte b
ByteBit(b, k) == (b \div (2 ^ k)) % 2

\* the eight bits of byte b, the lowest first
CrcByteSteps(reg, b) ==
    CrcBitStep(CrcBitStep(CrcBitStep(CrcBitStep(CrcBitStep(CrcBitStep(CrcBitStep(
        CrcBitStep(reg, ByteBit(b, 0)), ByteBit(b, 1)), ByteBit(b, 2)), ByteBit(b, 3)),
        ByteBit(b, 4)), ByteBit(b, 5)), ByteBit(b, 6)), ByteBit(b, 7))

\* the bytes from the state s = [reg, n] on, n bytes being done
RECURSIVE CrcBits(_, _)
CrcBits(bytes, s) ==
    IF s.n >= Len(bytes) THEN s.reg
    ELSE CrcBits(bytes, [reg |-> CrcByteSteps(s.reg, bytes[s.n + 1]), n |-> s.n + 1])

RegisterBit(reg, i) == IF i \in reg THEN 1 ELSE 0

\* byte j of the register, byte 0 the lowest
RegisterByte(reg, j) ==
    RegisterBit(reg, 8 * j) + 2 * RegisterBit(reg, 8 * j + 1)
      + 4 * RegisterBit(reg, 8 * j + 2) + 8 * RegisterBit(reg, 8 * j + 3)
      + 16 * RegisterBit(reg, 8 * j + 4) + 32 * RegisterBit(reg, 8 * j + 5)
      + 64 * RegisterBit(reg, 8 * j + 6) + 128 * RegisterBit(reg, 8 * j + 7)

\* the CRC32 of bytes, big-endian: the register starts with all bits 1 and
\* every bit is inverted at the end
ReferenceCrc32(bytes) ==
    LET reg == CrcBits(bytes, [reg |-> 0..31, n |-> 0])
        out == {i \in 0..31 : i \notin reg}
    IN <<RegisterByte(out, 3), RegisterByte(out, 2), RegisterByte(out, 1),
         RegisterByte(out, 0)>>

\* C32: createChunk(type, data) returns 12 + length(data) bytes: the length
\* of data as four big-endian bytes, the four type bytes, the data, and as
\* four big-endian bytes the CRC32 of type followed by data, the reflected
\* checksum of polynomial 0xEDB88320 with initial value and final XOR
\* 0xFFFFFFFF, an unsigned 32-bit value.  The empty IEND chunk is the well
\* known 00 00 00 00 49 45 4E 44 AE 42 60 82.
C32_ChunkLayout ==
    cpc = "created" =>
        LET n == Len(argData)
        IN /\ Len(createdChunk) = 12 + n
           /\ \A i \in 1..Len(createdChunk) : createdChunk[i] \in 0..255
           /\ SubSeq(createdChunk, 1, 4)
                = <<n \div 16777216, (n \div 65536) % 256, (n \div 256) % 256, n % 256>>
           /\ SubSeq(createdChunk, 5, 8) = argType
           /\ SubSeq(createdChunk, 9, 8 + n) = argData
           /\ SubSeq(createdChunk, 9 + n, 12 + n) = ReferenceCrc32(argType \o argData)
           /\ (argType = TYPE_IEND /\ n = 0) =>
                 createdChunk = <<0, 0, 0, 0, 73, 69, 78, 68, 174, 66, 96, 130>>

\* a tEXt chunk of a keyword, the separator and a text has been created
C32_Witness ==
    /\ cpc = "created"
    /\ argType = TYPE_tEXt
    /\ Len(argData) >= 8
    /\ Len(createdChunk) = 12 + Len(argData)
    /\ SubSeq(createdChunk, 9, 14) = KW_chara \o <<0>>

\* C33: embedding under one keyword does not affect extraction under
\* another.  For a valid PNG p, a value v and keywords k1 # k2,
\* extractMetadataFromPNG(embedMetadataInPNG(p, k1, v), k2) is what
\* extractMetadataFromPNG(p, k2) is, also when one keyword is a prefix of
\* the other.
C33_EmbedIndependent ==
    (/\ ppc = "extracted"
     /\ WellFormed(argPng)
     /\ extractKeyword # argKeyword) =>
        extracted = extractMetadataFromPNG(argPng, extractKeyword)

\* a file that carries a value under 'chara' was embedded into under
\* 'char', and the value under 'chara' is extracted as before
C33_Witness ==
    /\ ppc = "extracted"
    /\ WellFormed(argPng)
    /\ argKeyword = KW_char
    /\ extractKeyword = KW_chara
    /\ extracted.found
    /\ extracted.value # argJson
    /\ Cardinality(Matching(embedded.bytes, KW_char)) = 1

\* the text parses as JSON neither after base64 decoding nor as it stands
Unparsable(text) ==
    /\ ~JSONparse(text).ok
    /\ ~(atob(text).ok /\ JSONparse(Utf8Decode(atob(text).bytes)).ok)

\* C36: when the text of the first chunk in file order whose keyword matches
\* cannot be parsed as JSON, extractMetadataFromPNG returns absent and does
\* not go on to later chunks of the same keyword, whatever they hold.
C36_FirstUnparsableEnds ==
    ppc \in {"probed", "extracted"} =>
        LET parsed == parseChunks(ExtractInput)
            matching == {i \in 1..Len(parsed.chunks) :
                            StoredKeywordIs(parsed.chunks[i], extractKeyword)}
            first == CHOOSE i \in matching : \A j \in matching : i <= j
        IN (/\ parsed.error = "none"
            /\ matching # {}
            /\ Unparsable(Utf8Decode(StoredText(parsed.chunks[first])))) =>
                extracted = Absent("none")

\* the file holds two chunks of the keyword, the first with a text that is
\* no JSON, the second with valid metadata, and absent was returned
C36_Witness ==
    /\ ppc = "extracted"
    /\ extractKeyword = argKeyword
    /\ Cardinality(Matching(embedded.bytes, argKeyword)) = 2
    /\ LET chunks == parseChunks(embedded.bytes).chunks
           first == CHOOSE i \in Matching(embedded.bytes, argKeyword) :
                        \A j \in Matching(embedded.bytes, argKeyword) : i <= j
           last == CHOOSE i \in Matching(embedded.bytes, argKeyword) :
                       \A j \in Matching(embedded.bytes, argKeyword) : j <= i
       IN /\ Unparsable(Utf8Decode(StoredText(chunks[first])))
          /\ DecodeText(Utf8Decode(StoredText(chunks[last]))).found
          /\ DecodeText(Utf8Decode(StoredText(chunks[last]))).value = argJson
    /\ extracted = Absent("none")

\* how many of the three places hold job j: the queue, the in-flight set,
\* the settled jobs
PlacesOf(j) ==
    (IF Queued(j) THEN 1 ELSE 0) + (IF j \in inProgress THEN 1 ELSE 0)
      + (IF outcome[j].settled THEN 1 ELSE 0)

\* C34: in every state of the pool loop each submitted job is in exactly
\* one of the queue, the in-flight set and the settled jobs, and it stands
\* in the queue once; the size of inProgress is the number of jobs that
\* were started and have not settled; a job leaves inProgress in the step
\* in which it settles and in no other, and enters it in the step that
\* starts it.
C34_JobPartition ==
    /\ [](pc \in {"loop", "wait"} =>
            /\ \A j \in PoolJobs : PlacesOf(j) = 1
            /\ \A a, b \in 1..Len(queue) : queue[a] = queue[b] => a = b
            /\ inProgress \subseteq PoolJobs
            /\ \A a \in 1..Len(queue) : queue[a] \in PoolJobs
            /\ Cardinality(inProgress)
                 = Cardinality({j \in PoolJobs : started[j] > 0 /\ ~outcome[j].settled}))
    /\ [][\A j \in PoolJobs :
            /\ (j \in inProgress /\ j \notin inProgress')
                  <=> (~outcome[j].settled /\ outcome'[j].settled)
            /\ (j \notin inProgress /\ j \in inProgress')
                  <=> (started'[j] > started[j])]_vars

\* the orchestrator waits while jobs are queued, in flight and settled
C34_Witness ==
    /\ pc = "wait"
    /\ Len(queue) > 0
    /\ Cardinality(inProgress) >= 2
    /\ Cardinality({j \in PoolJobs : outcome[j].settled}) >= 2
    /\ Cardinality(inProgress) < MAX_CONCURRENT_EXPORTS

\* C35: the pool is work-conserving.  Whenever the orchestrator begins to
\* wait on Promise.race, the queue is empty or exactly
\* MAX_CONCURRENT_EXPORTS jobs are in flight, and at least one job is in
\* flight: no slot is free while a job is queued at that point.
C35_WorkConserving ==
    [][(pc = "loop" /\ pc' = "wait") =>
          /\ Len(queue') = 0 \/ Cardinality(inProgress') = MAX_CONCURRENT_EXPORTS
          /\ Cardinality(inProgress') \in 1..MAX_CONCURRENT_EXPORTS
          /\ raceWinner' = 0]_vars

\* the orchestrator has begun a later wait of a batch larger than the pool:
\* the slot of the job that settled was given to the queued job
C35_Witness ==
    /\ pc = "wait"
    /\ raceWinner = 0
    /\ Len(queue) = 0
    /\ Cardinality(inProgress) = MAX_CONCURRENT_EXPORTS
    /\ Len(results) = 1
    /\ Cardinality({j \in PoolJobs : outcome[j].settled}) = 1

====
